---- MODULE Spec2Model ----
(***************************************************************************)
(* MemLyze trace engine.                                                   *)
(*                                                                         *)
(* Spec       : one TraceWriter (tracer/memlyze/writer.py) with producer   *)
(*              threads calling write_event, the background _writer_loop   *)
(*              thread and one caller of close().                          *)
(* SpecLive   : the same writer under a fair scheduler.                    *)
(* SpecTracer : the MemoryTracer API (tracer/memlyze/tracer.py).           *)
(* SpecOpen   : the same API when the output file may fail to open.        *)
(* SpecSampler: the sampling filter of _process_snapshot_diff.             *)
(* SpecAnalyze: an encoded event stream read by cmd_analyze.               *)
(* SpecVarint : encode_varint and the two varint decoders.                 *)
(* SpecFormat : the intern tables of one TraceFormat and its header.       *)
(***************************************************************************)
EXTENDS Integers, Sequences, FiniteSets, TLC

\* ------------------------------------------------------------------ bounds
MaxEvents == 3      \* write_event calls in one run
MaxQueue  == 3      \* largest max_queue_size a run is constructed with

\* ------------------------------------------------- scaled program constants
BatchLimit  == 2    \* writer.py:80 batches up to 1000 events; scaled down
buffer_size == 3    \* writer.py:24 default 64 KiB scratch buffer; scaled down
HeaderLen   == 1    \* len(header) handed to open(); format.py:40 is 256

EventLens == {1, 2} \* byte lengths of the encoded events a producer hands in

\* the lengths the next event may have: records of the two lengths alternate,
\* starting with either
NextLens(log) ==
    IF log = <<>> THEN EventLens ELSE EventLens \ {log[Len(log)].len}

VARIABLES
    \* ---- TraceWriter fields (writer.py:34-46)
    max_queue_size,  \* self.max_queue_size
    fileOpen,        \* self.file is not None
    file,            \* events whose bytes were handed to self.file.write, in order
    buffer,          \* self.buffer (scratch bytearray) as the events it holds
    queue,           \* self.queue
    lock,            \* holder of self.lock: "free", "closer"
    should_stop,     \* self.should_stop
    events_written,
    bytes_written,
    events_dropped,
    \* ---- threads
    pc,              \* pc["worker"], pc["closer"]: position in _writer_loop / close
    events_to_write, \* the worker's local batch (what is left of it)
    tmp,             \* per thread: value loaded by a `+=` before it is stored
    ret,             \* per thread: where _flush_buffer returns to
    \* ---- history (not program state)
    enqLog,          \* events in the order write_event acquired the mutex
    appendLog,       \* events in the order they were appended to self.buffer
    droppedIds,      \* ids discarded by the overflow branch of write_event
    drained,         \* some thread has removed an event from the queue to write it
    enqAtClose,      \* ids enqueued when close() was called
    joined,          \* the join in close() returned because the worker had exited
    atReturn,        \* the writer's state when close() returned, or NoView
    errors           \* history: the operations an exception has come out of

VARIABLES
    \* ---- MemoryTracer objects and module state (tracer.py)
    tracer,          \* per MemoryTracer instance: its fields
    twriter,         \* per MemoryTracer instance: the TraceWriter it created
    active_tracer,   \* the module global _active_tracer
    gc_callbacks,    \* the tracers whose _on_gc is in gc.callbacks
    tracing,         \* tracemalloc.is_tracing()
    clock,           \* what time.time() returns, in ticks
    loc,             \* per thread of the tracer API: the call it is in, its locals
    calls            \* history: calls made so far (tracer API and GC callback)

VARIABLES
    \* ---- the sampling filter of _process_snapshot_diff on its own
    sampler,         \* sample_rate, the counters it drives, and what it admitted
    \* ---- an event stream and cmd_analyze reading it (__main__.py)
    input,           \* history: the events that were encoded, in order
    data,            \* the bytes of the trace file after header and metadata
    cut,             \* history: the file lost its tail in the middle of an event
    afmt,            \* the TraceFormat that encodes the stream
    an               \* cmd_analyze: file position, locals, outcome

VARIABLES
    \* ---- the varint codec and its two decoders on one byte string
    varint,          \* the bytes, where they came from, what each decoder made of them
    \* ---- one TraceFormat, its interning calls and the header it writes
    format,          \* the TraceFormat object
    interns,         \* history: every interning call, its argument and its result
    header           \* the header file: its bytes, and what the readers made of it

wvars == <<max_queue_size, fileOpen, file, buffer, queue, lock, should_stop,
           events_written, bytes_written, events_dropped, pc, events_to_write,
           tmp, ret, enqLog, appendLog, droppedIds, drained, enqAtClose,
           joined, atReturn, errors>>

tvars == <<tracer, twriter, active_tracer, gc_callbacks, tracing, clock, loc,
           calls>>

avars == <<sampler, input, data, cut, afmt, an>>

fvars == <<varint, format, interns, header>>

vars == <<wvars, tvars, avars, fvars>>

Threads == {"worker", "closer"}
NoView  == [closed |-> FALSE, queue |-> <<>>, buffer |-> <<>>, fileIds |-> {},
            written |-> 0, dropped |-> 0, lost |-> {}, seen |-> 0]

\* ----------------------------------------------------------------- helpers
RECURSIVE BufLen(_)
\* len(self.buffer): the bytes of the events the buffer holds
BufLen(b) == IF b = <<>> THEN 0 ELSE Head(b).len + BufLen(Tail(b))

Ids(s) == {s[i].id : i \in 1..Len(s)}

Min(a, b) == IF a <= b THEN a ELSE b

\* collections.deque(maxlen=n).append: a full deque discards its head
DequeAppend(q, e, maxlen) ==
    IF Len(q) >= maxlen THEN Append(Tail(q), e) ELSE Append(q, e)

\* mutants of write_event
write_event_dropNewest(q, d, e, cap) ==
    IF Len(q) >= cap
    THEN [queue |-> q, dropped |-> d + 1, lost |-> {e.id}, raised |-> FALSE]
    ELSE [queue |-> Append(q, e), dropped |-> d, lost |-> {}, raised |-> FALSE]

write_event_unbounded(q, d, e, cap) ==
    [queue |-> Append(q, e), dropped |-> d, lost |-> {}, raised |-> FALSE]

\* TraceWriter.write_event, the body of `with self.lock`; popleft() on an
\* empty deque raises IndexError before anything is counted or appended
write_event(q, d, e, cap) ==
    LET full == Len(q) >= cap
        q1   == IF full THEN Tail(q) ELSE q
    IN  IF full /\ q = <<>>
        THEN [queue |-> q, dropped |-> d, lost |-> {}, raised |-> TRUE]
        ELSE [queue   |-> DequeAppend(q1, e, cap),
              dropped |-> IF full THEN d + 1 ELSE d,
              lost    |-> IF full THEN {Head(q).id} ELSE {},
              raised  |-> FALSE]

\* ------------------------------------------------------------------- Init
WriterInit(caps) ==
    /\ max_queue_size \in caps
    /\ fileOpen = FALSE
    /\ file = <<>>
    /\ buffer = <<>>
    /\ queue = <<>>
    /\ lock = "free"
    /\ should_stop = FALSE
    /\ events_written = 0
    /\ bytes_written = 0
    /\ events_dropped = 0
    /\ pc = [worker |-> "unstarted", closer |-> "unopened"]
    /\ events_to_write = <<>>
    /\ tmp = [worker |-> 0, closer |-> 0]
    /\ ret = [worker |-> "none", closer |-> "none"]
    /\ enqLog = <<>>
    /\ appendLog = <<>>
    /\ droppedIds = {}
    /\ drained = FALSE
    /\ enqAtClose = {}
    /\ joined = FALSE
    /\ atReturn = NoView
    /\ errors = {}

\* ------------------------------------------------------------ TraceWriter
\* open(header): opens the file, writes the header, starts the worker thread
Open ==
    /\ pc["closer"] = "unopened"
    /\ fileOpen' = TRUE
    /\ bytes_written' = bytes_written + HeaderLen
    /\ should_stop' = FALSE
    /\ pc' = [worker |-> "top", closer |-> "idle"]
    /\ UNCHANGED <<tvars, avars, fvars, errors>>
    /\ UNCHANGED <<max_queue_size, file, buffer, queue, lock, events_written,
                   events_dropped, events_to_write, tmp, ret, enqLog,
                   appendLog, droppedIds, drained, enqAtClose, joined, atReturn>>

\* a producer thread runs write_event(event_data) to completion
WriteEvent ==
    /\ pc["closer"] # "unopened"
    /\ lock = "free"
    /\ Len(enqLog) < MaxEvents
    /\ \E l \in NextLens(enqLog) :
        LET e == [id |-> Len(enqLog) + 1, len |-> l]
            r == write_event(queue, events_dropped, e, max_queue_size)
        IN  /\ queue' = r.queue
            /\ events_dropped' = r.dropped
            /\ droppedIds' = droppedIds \cup r.lost
            /\ enqLog' = IF r.raised THEN enqLog ELSE Append(enqLog, e)
            /\ errors' = IF r.raised THEN errors \cup {"write_event"} ELSE errors
    /\ UNCHANGED <<tvars, avars, fvars>>
    /\ UNCHANGED <<max_queue_size, fileOpen, file, buffer, lock, should_stop,
                   events_written, bytes_written, pc, events_to_write, tmp,
                   ret, appendLog, drained, enqAtClose, joined, atReturn>>

\* ---- _writer_loop
\* mutant of loop_runs: a loop that never looks at the stop flag
loop_runs_forever == TRUE

\* `while not self.should_stop.is_set()`
loop_runs == ~should_stop

\* the test at the top of the loop
WorkerTop ==
    /\ pc["worker"] = "top"
    /\ pc' = [pc EXCEPT !["worker"] = IF loop_runs THEN "drain" ELSE "exited"]
    /\ UNCHANGED <<tvars, avars, fvars, errors>>
    /\ UNCHANGED <<max_queue_size, fileOpen, file, buffer, queue, lock,
                   should_stop, events_written, bytes_written, events_dropped,
                   events_to_write, tmp, ret, enqLog, appendLog, droppedIds,
                   drained, enqAtClose, joined, atReturn>>

\* the critical section that moves up to the batch limit into events_to_write;
\* an empty batch sleeps and goes back to the top of the loop
WorkerDrain ==
    /\ pc["worker"] = "drain"
    /\ lock = "free"
    /\ LET n == Min(Len(queue), BatchLimit)
       IN  /\ events_to_write' = SubSeq(queue, 1, n)
           /\ queue' = SubSeq(queue, n + 1, Len(queue))
           /\ drained' = (drained \/ n > 0)
           /\ pc' = [pc EXCEPT !["worker"] = IF n > 0 THEN "extend" ELSE "top"]
    /\ UNCHANGED <<tvars, avars, fvars, errors>>
    /\ UNCHANGED <<max_queue_size, fileOpen, file, buffer, lock, should_stop,
                   events_written, bytes_written, events_dropped, tmp, ret,
                   enqLog, appendLog, droppedIds, enqAtClose, joined, atReturn>>

\* `self.buffer.extend(event_data)` for the next event of the batch
WorkerExtend ==
    /\ pc["worker"] = "extend"
    /\ buffer' = Append(buffer, Head(events_to_write))
    /\ appendLog' = Append(appendLog, Head(events_to_write))
    /\ events_to_write' = Tail(events_to_write)
    /\ pc' = [pc EXCEPT !["worker"] = "load"]
    /\ UNCHANGED <<tvars, avars, fvars, errors>>
    /\ UNCHANGED <<max_queue_size, fileOpen, file, queue, lock, should_stop,
                   events_written, bytes_written, events_dropped, tmp, ret,
                   enqLog, droppedIds, drained, enqAtClose, joined, atReturn>>

\* `self.events_written += 1` is a load and a store (both threads)
IncLoad(th) ==
    /\ pc[th] = "load"
    /\ tmp' = [tmp EXCEPT ![th] = events_written]
    /\ pc' = [pc EXCEPT ![th] = "store"]
    /\ UNCHANGED <<tvars, avars, fvars, errors>>
    /\ UNCHANGED <<max_queue_size, fileOpen, file, buffer, queue, lock,
                   should_stop, events_written, bytes_written, events_dropped,
                   events_to_write, ret, enqLog, appendLog, droppedIds,
                   drained, enqAtClose, joined, atReturn>>

IncStore(th) ==
    /\ pc[th] = "store"
    /\ events_written' = tmp[th] + 1
    /\ pc' = [pc EXCEPT ![th] = IF th = "worker" THEN "check" ELSE "c_loop"]
    /\ UNCHANGED <<tvars, avars, fvars, errors>>
    /\ UNCHANGED <<max_queue_size, fileOpen, file, buffer, queue, lock,
                   should_stop, bytes_written, events_dropped, events_to_write,
                   tmp, ret, enqLog, appendLog, droppedIds, drained,
                   enqAtClose, joined, atReturn>>

\* where the worker goes after it has handled one event of the batch
AfterEvent == IF events_to_write # <<>> THEN "extend" ELSE "top"

\* `if len(self.buffer) >= self.buffer_size: self._flush_buffer()`
WorkerCheck ==
    /\ pc["worker"] = "check"
    /\ IF BufLen(buffer) >= buffer_size
       THEN /\ pc' = [pc EXCEPT !["worker"] = "f_test"]
            /\ ret' = [ret EXCEPT !["worker"] = AfterEvent]
       ELSE /\ pc' = [pc EXCEPT !["worker"] = AfterEvent]
            /\ ret' = ret
    /\ UNCHANGED <<tvars, avars, fvars, errors>>
    /\ UNCHANGED <<max_queue_size, fileOpen, file, buffer, queue, lock,
                   should_stop, events_written, bytes_written, events_dropped,
                   events_to_write, tmp, enqLog, appendLog, droppedIds,
                   drained, enqAtClose, joined, atReturn>>

\* ---- _flush_buffer, run by the worker and by close()
\* `if self.file and self.buffer`
FlushTest(th) ==
    /\ pc[th] = "f_test"
    /\ pc' = [pc EXCEPT ![th] = IF fileOpen /\ buffer # <<>> THEN "f_write"
                                ELSE ret[th]]
    /\ UNCHANGED <<tvars, avars, fvars, errors>>
    /\ UNCHANGED <<max_queue_size, fileOpen, file, buffer, queue, lock,
                   should_stop, events_written, bytes_written, events_dropped,
                   events_to_write, tmp, ret, enqLog, appendLog, droppedIds,
                   drained, enqAtClose, joined, atReturn>>

\* the operation a thread runs: what an exception in the thread comes out of
Running(th) == IF th = "worker" THEN "_writer_loop" ELSE "close"

\* `self.file.write(self.buffer)`: the bytes are written, or the write raises
\* OSError; on a file close() has already closed it raises in any case. Nothing
\* catches the exception: the worker thread dies of it, close() passes it on
FlushWrite(th) ==
    /\ pc[th] = "f_write"
    /\ \/ /\ fileOpen
          /\ file' = file \o buffer
          /\ pc' = [pc EXCEPT ![th] = "f_load"]
          /\ errors' = errors
       \/ /\ file' = file
          /\ pc' = [pc EXCEPT ![th] = IF th = "worker" THEN "crashed" ELSE "raised"]
          /\ errors' = errors \cup {Running(th)}
    /\ UNCHANGED <<tvars, avars, fvars>>
    /\ UNCHANGED <<max_queue_size, fileOpen, buffer, queue, lock, should_stop,
                   events_written, bytes_written, events_dropped,
                   events_to_write, tmp, ret, enqLog, appendLog, droppedIds,
                   drained, enqAtClose, joined, atReturn>>

\* mutant of FlushLoad: the flush counts the events of the buffer, not its bytes
FlushLoad_events(th) ==
    /\ pc[th] = "f_load"
    /\ tmp' = [tmp EXCEPT ![th] = bytes_written + Len(buffer)]
    /\ pc' = [pc EXCEPT ![th] = "f_store"]
    /\ UNCHANGED <<tvars, avars, fvars, errors>>
    /\ UNCHANGED <<max_queue_size, fileOpen, file, buffer, queue, lock,
                   should_stop, events_written, bytes_written, events_dropped,
                   events_to_write, ret, enqLog, appendLog, droppedIds,
                   drained, enqAtClose, joined, atReturn>>

\* `self.bytes_written += len(self.buffer)`: load and add, then store
FlushLoad(th) ==
    /\ pc[th] = "f_load"
    /\ tmp' = [tmp EXCEPT ![th] = bytes_written + BufLen(buffer)]
    /\ pc' = [pc EXCEPT ![th] = "f_store"]
    /\ UNCHANGED <<tvars, avars, fvars, errors>>
    /\ UNCHANGED <<max_queue_size, fileOpen, file, buffer, queue, lock,
                   should_stop, events_written, bytes_written, events_dropped,
                   events_to_write, ret, enqLog, appendLog, droppedIds,
                   drained, enqAtClose, joined, atReturn>>

FlushStore(th) ==
    /\ pc[th] = "f_store"
    /\ bytes_written' = tmp[th]
    /\ pc' = [pc EXCEPT ![th] = "f_clear"]
    /\ UNCHANGED <<tvars, avars, fvars, errors>>
    /\ UNCHANGED <<max_queue_size, fileOpen, file, buffer, queue, lock,
                   should_stop, events_written, events_dropped,
                   events_to_write, tmp, ret, enqLog, appendLog, droppedIds,
                   drained, enqAtClose, joined, atReturn>>

\* `self.buffer.clear()`
FlushClear(th) ==
    /\ pc[th] = "f_clear"
    /\ buffer' = <<>>
    /\ pc' = [pc EXCEPT ![th] = ret[th]]
    /\ UNCHANGED <<tvars, avars, fvars, errors>>
    /\ UNCHANGED <<max_queue_size, fileOpen, file, queue, lock, should_stop,
                   events_written, bytes_written, events_dropped,
                   events_to_write, tmp, ret, enqLog, appendLog, droppedIds,
                   drained, enqAtClose, joined, atReturn>>

\* ---- close()
\* `self.should_stop.set()`
CloseSetStop ==
    /\ pc["closer"] = "idle"
    /\ should_stop' = TRUE
    /\ enqAtClose' = Ids(enqLog)
    /\ pc' = [pc EXCEPT !["closer"] = "join"]
    /\ UNCHANGED <<tvars, avars, fvars, errors>>
    /\ UNCHANGED <<max_queue_size, fileOpen, file, buffer, queue, lock,
                   events_written, bytes_written, events_dropped,
                   events_to_write, tmp, ret, enqLog, appendLog, droppedIds,
                   drained, joined, atReturn>>

WorkerGone == pc["worker"] \in {"exited", "crashed"}

\* `self.writer_thread.join(timeout=5.0)` returns because the thread ended
CloseJoin ==
    /\ pc["closer"] = "join"
    /\ WorkerGone
    /\ joined' = TRUE
    /\ pc' = [pc EXCEPT !["closer"] = "lock"]
    /\ UNCHANGED <<tvars, avars, fvars, errors>>
    /\ UNCHANGED <<max_queue_size, fileOpen, file, buffer, queue, lock,
                   should_stop, events_written, bytes_written, events_dropped,
                   events_to_write, tmp, ret, enqLog, appendLog, droppedIds,
                   drained, enqAtClose, atReturn>>

\* ... or because the 5 s ran out while the worker was still running
CloseJoinTimeout ==
    /\ pc["closer"] = "join"
    /\ ~WorkerGone
    /\ joined' = FALSE
    /\ pc' = [pc EXCEPT !["closer"] = "lock"]
    /\ UNCHANGED <<tvars, avars, fvars, errors>>
    /\ UNCHANGED <<max_queue_size, fileOpen, file, buffer, queue, lock,
                   should_stop, events_written, bytes_written, events_dropped,
                   events_to_write, tmp, ret, enqLog, appendLog, droppedIds,
                   drained, enqAtClose, atReturn>>

\* `with self.lock:` of the final drain
CloseLock ==
    /\ pc["closer"] = "lock"
    /\ lock = "free"
    /\ lock' = "closer"
    /\ pc' = [pc EXCEPT !["closer"] = "c_loop"]
    /\ UNCHANGED <<tvars, avars, fvars, errors>>
    /\ UNCHANGED <<max_queue_size, fileOpen, file, buffer, queue, should_stop,
                   events_written, bytes_written, events_dropped,
                   events_to_write, tmp, ret, enqLog, appendLog, droppedIds,
                   drained, enqAtClose, joined, atReturn>>

\* mutant of with_exit: the final drain's lock is kept through _flush_buffer
with_exit_held(holder) == holder

\* leaving the `with self.lock:` block releases the lock
with_exit(holder) == "free"

\* `while self.queue:` popleft and extend; leaving the loop releases the lock
\* and calls _flush_buffer
CloseLoop ==
    /\ pc["closer"] = "c_loop"
    /\ IF queue # <<>>
       THEN /\ queue' = Tail(queue)
            /\ buffer' = Append(buffer, Head(queue))
            /\ appendLog' = Append(appendLog, Head(queue))
            /\ drained' = TRUE
            /\ pc' = [pc EXCEPT !["closer"] = "load"]
            /\ UNCHANGED <<lock, ret>>
       ELSE /\ lock' = with_exit("closer")
            /\ pc' = [pc EXCEPT !["closer"] = "f_test"]
            /\ ret' = [ret EXCEPT !["closer"] = "c_close"]
            /\ UNCHANGED <<queue, buffer, appendLog, drained>>
    /\ UNCHANGED <<tvars, avars, fvars, errors>>
    /\ UNCHANGED <<max_queue_size, fileOpen, file, should_stop,
                   events_written, bytes_written, events_dropped,
                   events_to_write, tmp, enqLog, droppedIds, enqAtClose,
                   joined, atReturn>>

\* `if self.file: self.file.close(); self.file = None`, and close() returns
CloseFile ==
    /\ pc["closer"] = "c_close"
    /\ fileOpen' = FALSE
    /\ pc' = [pc EXCEPT !["closer"] = "done"]
    /\ atReturn' = [closed  |-> TRUE,
                    queue   |-> queue,
                    buffer  |-> buffer,
                    fileIds |-> Ids(file),
                    written |-> events_written,
                    dropped |-> events_dropped,
                    lost    |-> droppedIds,
                    seen    |-> Len(enqLog)]
    /\ UNCHANGED <<tvars, avars, fvars, errors>>
    /\ UNCHANGED <<max_queue_size, file, buffer, queue, lock, should_stop,
                   events_written, bytes_written, events_dropped,
                   events_to_write, tmp, ret, enqLog, appendLog, droppedIds,
                   drained, enqAtClose, joined>>

\* ========================================================== TraceWriter claims
Increasing(s) == \A i, j \in 1..Len(s) : i < j => s[i].id < s[j].id

\* C1 (as claimed): once close() has returned, the write_event calls that
\* completed during the run number events_written + events_dropped.
DropAccounting ==
    atReturn.closed => atReturn.seen = atReturn.written + atReturn.dropped

\* C2 (as claimed): events are appended to the scratch buffer, and reach the
\* file, in the order in which write_event enqueued them, each at most once.
WriteOrder == Increasing(appendLog) /\ Increasing(file)

\* C3: a write_event on a full queue discards the head, admits the new event
\* at the tail and adds exactly 1 to events_dropped; with no draining, after
\* N >= C enqueues events_dropped >= N - C and the queue is the C most recent
\* events in FIFO order.
DropOldestOverflow ==
    /\ [][(Len(enqLog') = Len(enqLog) + 1 /\ Len(queue) >= max_queue_size)
            => /\ queue' = Append(SubSeq(queue, 2, Len(queue)), enqLog'[Len(enqLog')])
               /\ events_dropped' = events_dropped + 1]_vars
    /\ []((~drained /\ Len(enqLog) >= max_queue_size)
            => /\ events_dropped >= Len(enqLog) - max_queue_size
               /\ queue = SubSeq(enqLog, Len(enqLog) - max_queue_size + 1,
                                 Len(enqLog)))

DropOldestWitness ==
    /\ ~drained
    /\ max_queue_size >= 2
    /\ Len(enqLog) > max_queue_size
    /\ events_dropped >= 1
    /\ Len(queue) = max_queue_size

\* C4: the ring buffer never holds more than max_queue_size events.
BoundedBuffer == Len(queue) <= max_queue_size

BoundedBufferWitness ==
    /\ drained
    /\ Len(queue) = max_queue_size
    /\ events_dropped >= 1

\* C5 (as claimed): when close() returns after the worker has exited, the
\* queue and the scratch buffer are empty and the file holds every event that
\* was enqueued before close() was called and not dropped by overflow.
FinalDrain ==
    (atReturn.closed /\ joined)
        => /\ atReturn.queue = <<>>
           /\ atReturn.buffer = <<>>
           /\ (enqAtClose \ atReturn.lost) \subseteq atReturn.fileIds

\* C27 (as claimed): close() closes the file and touches the scratch buffer
\* only after the worker thread has ended, whether the join returned or timed
\* out, and the worker appends to the buffer or writes to the file only before
\* close() does.
CloseAfterWorkerExit ==
    [][/\ (/\ pc'["closer"] # pc["closer"]
           /\ pc["closer"] # "unopened"
           /\ (buffer' # buffer \/ file' # file \/ fileOpen' # fileOpen))
          => WorkerGone
       /\ (/\ pc'["worker"] # pc["worker"]
           /\ (buffer' # buffer \/ file' # file))
          => pc["closer"] \in {"idle", "join"}]_vars

\* C28 (as claimed): write_event never raises, whatever the capacity; it
\* admits the new event at the tail, shows an overflow in events_dropped only,
\* and leaves the file alone.
ProducerNeverFails ==
    /\ []("write_event" \notin errors)
    /\ [][Len(enqLog') = Len(enqLog) + 1
            => /\ queue' # <<>>
               /\ queue'[Len(queue')] = enqLog'[Len(enqLog')]
               /\ events_dropped' =
                     IF Len(queue) >= max_queue_size THEN events_dropped + 1
                     ELSE events_dropped
               /\ UNCHANGED <<file, fileOpen, buffer, bytes_written>>]_vars

\* C29 (as claimed): a file write that fails in the worker loop does not end
\* the worker thread, and close() does not raise afterwards.
WorkerSurvivesWriteError ==
    "_writer_loop" \in errors
        => /\ pc["worker"] # "crashed"
           /\ "close" \notin errors

\* C33: no thread writes the file while it holds the ring buffer's lock. The
\* critical sections of write_event and of the worker's drain are the steps
\* that change the queue, and close() holds the lock from its `with` to the
\* end of its drain loop: none of these steps changes the file, and they move
\* events only between the queue, events_to_write and the scratch buffer.
NoIOUnderLock ==
    [][/\ queue' # queue => /\ file' = file
                            /\ fileOpen' = fileOpen
                            /\ bytes_written' = bytes_written
       /\ (lock = "closer" /\ pc'["closer"] # pc["closer"])
             => /\ file' = file
                /\ fileOpen' = fileOpen
                /\ bytes_written' = bytes_written]_vars

\* close() has written its final drain to the file, the lock released
NoIOUnderLockWitness ==
    /\ pc["closer"] = "f_load"
    /\ lock = "free"
    /\ queue = <<>>
    /\ Len(buffer) >= 2
    /\ Len(file) >= 2

\* the worker's step that ends its handling of one event of the batch: the
\* capacity test found room, or _flush_buffer returned
WorkerHandled ==
    /\ pc["worker"] \in {"check", "f_test", "f_clear"}
    /\ pc'["worker"] \in {"extend", "top"}

\* C35 (as claimed): one critical section of the worker removes at most the
\* batch limit of events from the head of the queue, in FIFO order, and when
\* the worker has handled an event the scratch buffer holds fewer than
\* buffer_size bytes.
BatchAndBufferBound ==
    [][/\ (pc["worker"] = "drain" /\ pc'["worker"] # "drain")
             => /\ Len(events_to_write') <= BatchLimit
                /\ queue = events_to_write' \o queue'
       /\ WorkerHandled => BufLen(buffer') < buffer_size]_vars

\* the header and the events events_written counts: the first events_written
\* events appended to the scratch buffer
CountedBytes ==
    HeaderLen + BufLen(SubSeq(appendLog, 1, Min(events_written, Len(appendLog))))

\* C37: once close() has returned after the worker left its loop,
\* bytes_written is the length of the output file, which is the header and
\* the events counted in events_written; until close() is called
\* bytes_written never exceeds that sum.
ByteAccounting ==
    /\ (pc["closer"] = "done" /\ joined /\ pc["worker"] = "exited")
          => /\ bytes_written = HeaderLen + BufLen(file)
             /\ bytes_written = CountedBytes
             /\ events_written = Len(appendLog)
    /\ pc["closer"] = "idle" => bytes_written <= CountedBytes

\* close() has returned after the worker ended, events of both lengths written
ByteAccountingWitness ==
    /\ pc["closer"] = "done"
    /\ joined
    /\ pc["worker"] = "exited"
    /\ \E i, j \in 1..Len(file) : file[i].len = 1 /\ file[j].len = 2
    /\ bytes_written > HeaderLen + 2

\* C34 (as claimed): once the stop flag is set the worker thread ends, by
\* leaving its loop or, when a file write does not complete, by the exception
\* of that write; it finishes the batch it has drained, takes no further
\* batch from the queue (its local list never grows again), and has appended
\* every event it removed from the queue when it leaves the loop.
WorkerTerminationNoBatch ==
    /\ should_stop ~> WorkerGone
    /\ [][should_stop => Len(events_to_write') <= Len(events_to_write)]_vars
    /\ [](pc["worker"] = "exited" => should_stop /\ events_to_write = <<>>)

\* C34 (amended): as above, but the worker takes no further batch once it has
\* tested the flag at the top of its loop and found it set. A pass of the
\* loop whose test came before the flag was set still takes its batch.
WorkerTermination ==
    /\ should_stop ~> WorkerGone
    /\ [][(should_stop /\ pc["worker"] = "top")
             => pc'["worker"] \in {"top", "exited"}]_vars
    /\ [](pc["worker"] = "exited" => should_stop /\ events_to_write = <<>>)

\* the worker has left its loop with its last batch appended and events
\* still in the queue, which it did not take
WorkerTerminationWitness ==
    /\ pc["worker"] = "exited"
    /\ appendLog # <<>>
    /\ queue # <<>>
    /\ events_to_write = <<>>

\* close() has returned: the file is closed and no event enqueued before the
\* call is still in the queue
CloseCompleted ==
    /\ pc["closer"] = "done"
    /\ ~fileOpen
    /\ atReturn.closed
    /\ enqAtClose \cap Ids(atReturn.queue) = {}

\* C32 (as claimed): when join() times out on a worker that is still
\* running, close() still terminates, having drained the events left in the
\* ring buffer itself and closed the file.
CloseTerminates ==
    (pc["closer"] = "lock" /\ ~joined) ~> CloseCompleted

\* ================================================ MemoryTracer (tracer.py)
\* ------------------------------------------------------------------ bounds
MaxClock       == 2   \* ticks the clock advances in one run
MaxCalls       == 3   \* calls of the tracer API and of the GC callback in one run
MaxTraceEvents == 2   \* events one tracer hands to one writer
MaxSeen        == 2   \* call-site deltas one tracer observes

\* ------------------------------------------------- scaled program constants
TicksPerUs == 2       \* clock resolution: ticks in one microsecond
max_events == 2       \* tracer.py:32 default 10000 events; scaled down

Tracers    == {"t1", "t2"}
None       == "None"
Callers    == {"main", "gc"}
Names      == {"a"}
Phases     == {"start", "stop"}
SampleDens == {1, 2}  \* sample_rate is 1 / den
TB1        == << <<"a.py", 1>> >>
TB2        == << <<"a.py", 2>>, <<"b.py", 1>> >>
Tracebacks == {TB1, TB2}
Stat       == [traceback : Tracebacks, size_diff : {-1, 1}]
\* what Snapshot.compare_to(prev, 'lineno') returns: at most one entry per
\* call site, in the order it sorts them
StatLists  == {<<>>} \cup {<<s>> : s \in Stat}
                     \cup {<<s1, s2>> : s1 \in {s \in Stat : s.traceback = TB1 /\ s.size_diff > 0},
                                        s2 \in {s \in Stat : s.traceback = TB2}}

EmptyMap == [x \in {} |-> 0]
Put(m, k, v) == [x \in DOMAIN m \cup {k} |-> IF x = k THEN v ELSE m[x]]
Minimum(S) == CHOOSE x \in S : \A y \in S : x <= y

\* int(x) of a float truncates toward zero
TruncDiv(a, b) == IF a >= 0 THEN a \div b ELSE -((-a) \div b)

\* `int((current_time - self.last_event_time) * 1_000_000)`
TimestampDelta(current_time, last_event_time) ==
    TruncDiv(current_time - last_event_time, TicksPerUs)

\* ---- TraceFormat (format.py)
NewFormat ==
    [stack_traces |-> EmptyMap, files |-> EmptyMap, functions |-> EmptyMap,
     next_stack_id |-> 0, next_file_id |-> 0, next_func_id |-> 0,
     stack_cache |-> EmptyMap]

\* the dict json.dumps serializes in create_header
Metadata(fmt) ==
    [stack_traces |-> fmt.stack_traces, files |-> fmt.files,
     functions |-> fmt.functions]

get_or_create_file_id(fmt, filename) ==
    LET hits == {i \in DOMAIN fmt.files : fmt.files[i] = filename}
    IN  IF hits # {}
        THEN [fmt |-> fmt, id |-> Minimum(hits)]
        ELSE [fmt |-> [fmt EXCEPT !.files = Put(@, fmt.next_file_id, filename),
                                  !.next_file_id = @ + 1],
              id  |-> fmt.next_file_id]

\* mutant of get_or_create_func_id: no search, every call takes a new id
get_or_create_func_id_append(fmt, funcname) ==
    [fmt |-> [fmt EXCEPT !.functions = Put(@, fmt.next_func_id, funcname),
                         !.next_func_id = @ + 1],
     id  |-> fmt.next_func_id]

get_or_create_func_id(fmt, funcname) ==
    LET hits == {i \in DOMAIN fmt.functions : fmt.functions[i] = funcname}
    IN  IF hits # {}
        THEN [fmt |-> fmt, id |-> Minimum(hits)]
        ELSE [fmt |-> [fmt EXCEPT !.functions = Put(@, fmt.next_func_id, funcname),
                                  !.next_func_id = @ + 1],
              id  |-> fmt.next_func_id]

RECURSIVE InternFrames(_, _, _)
\* the `for filename, lineno, funcname in stack_trace` loop
InternFrames(fmt, rest, frames) ==
    IF rest = <<>> THEN [fmt |-> fmt, frames |-> frames]
    ELSE LET f  == Head(rest)
             r1 == get_or_create_file_id(fmt, f[1])
             r2 == get_or_create_func_id(r1.fmt, f[3])
         IN  InternFrames(r2.fmt, Tail(rest),
                 Append(frames, [file_id |-> r1.id, line |-> f[2], func_id |-> r2.id]))

\* mutant of get_or_create_stack_id: the cache is never consulted
get_or_create_stack_id_uncached(fmt, stack_trace) ==
    LET stack_id == fmt.next_stack_id
        r == InternFrames([fmt EXCEPT !.next_stack_id = @ + 1], stack_trace, <<>>)
    IN  [fmt |-> [r.fmt EXCEPT !.stack_traces = Put(@, stack_id, r.frames),
                               !.stack_cache = Put(@, stack_trace, stack_id)],
         id  |-> stack_id]

get_or_create_stack_id(fmt, stack_trace) ==
    IF stack_trace \in DOMAIN fmt.stack_cache
    THEN [fmt |-> fmt, id |-> fmt.stack_cache[stack_trace]]
    ELSE LET stack_id == fmt.next_stack_id
             r == InternFrames([fmt EXCEPT !.next_stack_id = @ + 1], stack_trace, <<>>)
         IN  [fmt |-> [r.fmt EXCEPT !.stack_traces = Put(@, stack_id, r.frames),
                                    !.stack_cache = Put(@, stack_trace, stack_id)],
              id  |-> stack_id]

\* ---- the TraceWriter a tracer owns, with the worker's batches taken whole
NoWriter ==
    [open |-> FALSE, should_stop |-> FALSE, queue |-> <<>>, file |-> <<>>,
     header_meta |-> Metadata(NewFormat), events_written |-> 0,
     bytes_written |-> 0, events_dropped |-> 0, max_queue_size |-> max_events,
     emitted |-> <<>>, times |-> <<>>]

\* TraceWriter(output_file, max_queue_size=self.max_events) and open(header)
NewWriter(cap, meta) ==
    [NoWriter EXCEPT !.open = TRUE, !.header_meta = meta, !.max_queue_size = cap,
                     !.bytes_written = HeaderLen]

\* self.writer.write_event(event_data); emitted keeps every event handed in
WriterEnqueue(w, e) ==
    LET r == write_event(w.queue, w.events_dropped, e, w.max_queue_size)
    IN  [w EXCEPT !.queue = r.queue, !.events_dropped = r.dropped,
                  !.emitted = Append(@, e)]

\* history: times[i] is the clock reading (current_time) of the call that
\* recorded emitted[i]
Timed(w, current_time) ==
    [w EXCEPT !.times = @ \o [i \in 1..(Len(w.emitted) - Len(@)) |-> current_time]]

\* one pass of _writer_loop: a batch leaves the queue and is appended
WriterBatch(w) ==
    LET n == Min(Len(w.queue), BatchLimit)
    IN  [w EXCEPT !.file = @ \o SubSeq(w.queue, 1, n),
                  !.queue = SubSeq(w.queue, n + 1, Len(w.queue)),
                  !.events_written = @ + n,
                  !.bytes_written = @ + BufLen(SubSeq(w.queue, 1, n))]

\* close() once the worker has exited: final drain, flush, close the file
WriterClose(w) ==
    [w EXCEPT !.should_stop = TRUE,
              !.file = IF w.open THEN @ \o w.queue ELSE @,
              !.queue = <<>>,
              !.events_written = @ + Len(w.queue),
              !.bytes_written = IF w.open THEN @ + BufLen(w.queue) ELSE @,
              !.open = FALSE]

\* ---- MemoryTracer
\* MemoryTracer.__init__
\* output_file: a path open() can create, and one it cannot (no such directory)
GoodPath == "trace.mlyze"
BadPath  == "/no-such-dir/trace.mlyze"
Paths    == {GoodPath, BadPath}

\* `open(self.filepath, 'wb')` returns a file; otherwise it raises OSError
opens(path) == path # BadPath

NewTracer(den) ==
    [output_file |-> GoodPath, is_active |-> FALSE, has_writer |-> FALSE, start_time |-> 0,
     last_event_time |-> 0, sample_den |-> den,
     sample_threshold |-> IF den > 1 THEN den ELSE 1,
     allocation_count |-> 0,
     stats |-> [allocations_seen |-> 0, allocations_tracked |-> 0,
                deallocations_tracked |-> 0, gc_events |-> 0],
     format |-> NewFormat, prev_snapshot |-> FALSE, track_gc |-> TRUE,
     max_events |-> max_events]

NewEvent(w, tag, delta, size, ref) ==
    [id |-> Len(w.emitted) + 1, len |-> 1, tag |-> tag, delta |-> delta,
     size |-> size, ref |-> ref]

\* _record_allocation on the pair st = [tr |-> tracer, wr |-> its writer]
record_allocation(st, timestamp_delta, size, traceback) ==
    IF ~st.tr.has_writer THEN st
    ELSE LET stack_trace == [i \in 1..Len(traceback) |->
                                <<traceback[i][1], traceback[i][2], "">>]
             r == get_or_create_stack_id(st.tr.format, stack_trace)
         IN  [tr |-> [st.tr EXCEPT !.format = r.fmt,
                                   !.stats.allocations_tracked = @ + 1],
              wr |-> WriterEnqueue(st.wr,
                         NewEvent(st.wr, "ALLOC", timestamp_delta, size, r.id))]

\* _record_deallocation
record_deallocation(st, timestamp_delta, size) ==
    IF ~st.tr.has_writer THEN st
    ELSE [tr |-> [st.tr EXCEPT !.stats.deallocations_tracked = @ + 1],
          wr |-> WriterEnqueue(st.wr, NewEvent(st.wr, "FREE", timestamp_delta, 0, 0))]

RECURSIVE process_stats(_, _, _)
\* the `for stat in top_stats` loop of _process_snapshot_diff
process_stats(st, top_stats, timestamp_delta) ==
    IF top_stats = <<>> THEN st
    ELSE LET stat    == Head(top_stats)
             t1      == [st.tr EXCEPT !.stats.allocations_seen = @ + 1]
             sampled == t1.sample_den > 1
             t2      == IF sampled THEN [t1 EXCEPT !.allocation_count = @ + 1] ELSE t1
             skip    == sampled /\ (t2.allocation_count % t2.sample_threshold # 0)
             st2     == [tr |-> t2, wr |-> st.wr]
             st3     == IF skip THEN st2
                        ELSE IF stat.size_diff > 0
                        THEN record_allocation(st2, timestamp_delta,
                                               stat.size_diff, stat.traceback)
                        ELSE IF stat.size_diff < 0
                        THEN record_deallocation(st2, timestamp_delta, -stat.size_diff)
                        ELSE st2
         IN  process_stats(st3, Tail(top_stats), timestamp_delta)

\* a thread outside any call
NoCall ==
    [pc |-> "idle", op |-> "none", t |-> None, cur |-> 0, stats |-> <<>>,
     name |-> "", active |-> FALSE, raised |-> FALSE]

\* a thread whose call op on tracer t is returning (or raising) to its caller;
\* active is what t.is_active was when the call was made
Returned(op, t, raised) ==
    [NoCall EXCEPT !.pc = "ret", !.op = op, !.t = t,
                   !.active = tracer[t].is_active, !.raised = raised]

InCall(op, t, pcv, now) ==
    [NoCall EXCEPT !.pc = pcv, !.op = op, !.t = t,
                   !.active = tracer[t].is_active, !.cur = now]

TracerInitAt(dens, paths) ==
    /\ \E d \in dens, f \in [Tracers -> paths] :
          tracer = [t \in Tracers |-> [NewTracer(d) EXCEPT !.output_file = f[t]]]
    /\ twriter = [t \in Tracers |-> NoWriter]
    /\ active_tracer = None
    /\ gc_callbacks = {}
    /\ tracing = FALSE
    /\ clock = 0
    /\ loc = [th \in Callers |-> NoCall]
    /\ calls = 0

\* tracers whose output file can be opened
TracerInit(dens) == TracerInitAt(dens, {GoodPath})

\* the model's cut-off on the call-site deltas a pull may return
WithinBounds(t, top_stats) ==
    \/ top_stats = <<>>
    \/ /\ tracer[t].stats.allocations_seen + Len(top_stats) <= MaxSeen
       /\ Len(twriter[t].emitted) + Len(top_stats) <= MaxTraceEvents

\* time.time(): the clock never runs backwards; it is observed only here
Now == clock..MaxClock

\* the call returns, or its exception reaches the caller
Return(th) ==
    /\ loc[th].pc = "ret"
    /\ loc' = [loc EXCEPT ![th] = NoCall]
    /\ UNCHANGED <<tracer, twriter, active_tracer, gc_callbacks, tracing, clock,
                   calls>>
    /\ UNCHANGED <<wvars, avars, fvars>>

\* `if self.is_active: raise RuntimeError("Tracer is already active")`
start_refuses(t) == tracer[t].is_active

\* the tracer objects are interchangeable: the one that is started first is
\* the one called t1
NamedInOrder(t) == t = "t1" \/ tracer["t1"].has_writer

\* TraceWriter(...) whose open(header) raised at `open(self.filepath, 'wb')`:
\* no file, no header, no worker thread
UnopenedWriter(cap, meta) ==
    [NoWriter EXCEPT !.header_meta = meta, !.max_queue_size = cap]

\* MemoryTracer.start on the thread "main"; `self.writer.open(header)` either
\* opens the output file or raises OSError, which start() lets through to
\* its caller
StartCall(t, op) ==
    /\ loc["main"].pc = "idle"
    /\ NamedInOrder(t)
    /\ calls < MaxCalls
    /\ calls' = calls + 1
    /\ IF start_refuses(t)
       THEN /\ loc' = [loc EXCEPT !["main"] = Returned(op, t, TRUE)]
            /\ UNCHANGED <<tracer, twriter, active_tracer, gc_callbacks,
                           tracing, clock>>
       ELSE \E now \in Now :
            LET opened == opens(tracer[t].output_file) IN
            /\ clock' = now
            /\ tracing' = TRUE
            /\ twriter' = [twriter EXCEPT ![t] =
                              IF opened
                              THEN NewWriter(tracer[t].max_events,
                                             Metadata(tracer[t].format))
                              ELSE UnopenedWriter(tracer[t].max_events,
                                                  Metadata(tracer[t].format))]
            /\ tracer' = [tracer EXCEPT ![t].has_writer = TRUE,
                                        ![t].start_time = now,
                                        ![t].last_event_time = now,
                                        ![t].prev_snapshot =
                                            IF opened THEN TRUE ELSE @,
                                        ![t].is_active = opened]
            /\ gc_callbacks' = IF opened /\ tracer[t].track_gc
                               THEN gc_callbacks \cup {t}
                               ELSE gc_callbacks
            /\ active_tracer' = IF opened THEN t ELSE active_tracer
            /\ loc' = [loc EXCEPT !["main"] = Returned(op, t, ~opened)]
    /\ UNCHANGED <<wvars, avars, fvars>>

TracerStart(t) ==
    /\ t \in Tracers
    /\ StartCall(t, "start")

\* the module-level start(): a new MemoryTracer, then tracer.start()
ModuleStart(t) ==
    /\ \E d \in SampleDens, f \in Paths :
          tracer[t] = [NewTracer(d) EXCEPT !.output_file = f]
    /\ StartCall(t, "module_start")

\* mutant of stop_returns: stop() without its early return
stop_always_runs(t) == FALSE

\* `if not self.is_active: return`
stop_returns(t) == ~tracer[t].is_active

\* MemoryTracer.stop up to the clock read of _process_snapshot_diff
StopCall(t, op) ==
    /\ loc["main"].pc = "idle"
    /\ calls < MaxCalls
    /\ calls' = calls + 1
    /\ IF stop_returns(t)
       THEN /\ loc' = [loc EXCEPT !["main"] = Returned(op, t, FALSE)]
            /\ UNCHANGED <<gc_callbacks, clock>>
       ELSE /\ gc_callbacks' = IF tracer[t].track_gc THEN gc_callbacks \ {t}
                               ELSE gc_callbacks
            /\ IF ~tracing
               THEN \* tracemalloc.take_snapshot() raises when not tracing
                    /\ loc' = [loc EXCEPT !["main"] = Returned(op, t, TRUE)]
                    /\ UNCHANGED clock
               ELSE \E top_stats \in StatLists, now \in Now :
                    /\ WithinBounds(t, top_stats)
                    /\ clock' = now
                    /\ loc' = [loc EXCEPT !["main"] =
                                 [InCall(op, t, "stop_emit", now)
                                    EXCEPT !.stats = top_stats]]
    /\ UNCHANGED <<tracer, twriter, active_tracer, tracing>>
    /\ UNCHANGED <<wvars, avars, fvars>>

TracerStop(t) ==
    /\ t \in Tracers
    /\ StopCall(t, "stop")

\* the module-level stop()
ModuleStop ==
    /\ active_tracer # None
    /\ StopCall(active_tracer, "module_stop")

\* _process_snapshot_diff from the delta to the end of the loop, for the
\* thread in stop() or snapshot()
DiffEmit(from, to) ==
    /\ loc["main"].pc = from
    /\ LET t  == loc["main"].t
           st == IF tracer[t].prev_snapshot
                 THEN process_stats([tr |-> tracer[t], wr |-> twriter[t]],
                          loc["main"].stats,
                          TimestampDelta(loc["main"].cur, tracer[t].last_event_time))
                 ELSE [tr |-> tracer[t], wr |-> twriter[t]]
       IN  /\ tracer' = [tracer EXCEPT ![t] = st.tr]
           /\ twriter' = [twriter EXCEPT ![t] = Timed(st.wr, loc["main"].cur)]
    /\ loc' = [loc EXCEPT !["main"].pc = to, !["main"].stats = <<>>]
    /\ UNCHANGED <<active_tracer, gc_callbacks, tracing, clock>>
    /\ UNCHANGED calls
    /\ UNCHANGED <<wvars, avars, fvars>>

StopEmit ==
    /\ loc["main"].op \in {"stop", "module_stop"}
    /\ DiffEmit("stop_emit", "stop_set")

\* `self.last_event_time = current_time`, then the rest of stop()
StopFinish ==
    /\ loc["main"].pc = "stop_set"
    /\ LET t == loc["main"].t
       IN  /\ tracing' = FALSE
           /\ twriter' = [twriter EXCEPT ![t] =
                             IF tracer[t].has_writer THEN WriterClose(@) ELSE @]
           /\ tracer' = [tracer EXCEPT
                           ![t].last_event_time =
                               IF tracer[t].prev_snapshot THEN loc["main"].cur ELSE @,
                           ![t].is_active = FALSE]
           /\ active_tracer' = None
    /\ loc' = [loc EXCEPT !["main"] = NoCall]
    /\ UNCHANGED <<gc_callbacks, clock>>
    /\ UNCHANGED calls
    /\ UNCHANGED <<wvars, avars, fvars>>

\* mutant of mark_returns: mark() without its is_active test
mark_returns_unwritten(t) == ~tracer[t].has_writer

\* `if not self.writer or not self.is_active: return`
mark_returns(t) == ~tracer[t].has_writer \/ ~tracer[t].is_active

\* `if not self.is_active: return`
snapshot_returns(t) == ~tracer[t].is_active

\* a module-level function that finds `_active_tracer` None and does nothing
ModuleIdle(op) ==
    /\ active_tracer = None
    /\ loc["main"].pc = "idle"
    /\ calls < MaxCalls
    /\ calls' = calls + 1
    /\ loc' = [loc EXCEPT !["main"] = [NoCall EXCEPT !.pc = "ret", !.op = op]]
    /\ UNCHANGED <<tracer, twriter, active_tracer, gc_callbacks, tracing, clock>>
    /\ UNCHANGED <<wvars, avars, fvars>>

\* MemoryTracer.snapshot up to the clock read
SnapshotCall(t) ==
    /\ loc["main"].pc = "idle"
    /\ calls < MaxCalls
    /\ calls' = calls + 1
    /\ IF snapshot_returns(t)
       THEN /\ loc' = [loc EXCEPT !["main"] = Returned("snapshot", t, FALSE)]
            /\ UNCHANGED clock
       ELSE IF ~tracing
       THEN /\ loc' = [loc EXCEPT !["main"] = Returned("snapshot", t, TRUE)]
            /\ UNCHANGED clock
       ELSE \E top_stats \in StatLists, now \in Now :
            /\ WithinBounds(t, top_stats)
            /\ clock' = now
            /\ loc' = [loc EXCEPT !["main"] =
                         [InCall("snapshot", t, "snap_emit", now)
                            EXCEPT !.stats = top_stats]]
    /\ UNCHANGED <<tracer, twriter, active_tracer, gc_callbacks, tracing>>
    /\ UNCHANGED <<wvars, avars, fvars>>

SnapshotEmit ==
    /\ loc["main"].op = "snapshot"
    /\ DiffEmit("snap_emit", "snap_set")

\* `self.last_event_time = current_time`; `self.prev_snapshot = current_snapshot`
SnapshotFinish ==
    /\ loc["main"].pc = "snap_set"
    /\ tracer' = [tracer EXCEPT ![loc["main"].t].last_event_time = loc["main"].cur,
                                ![loc["main"].t].prev_snapshot = TRUE]
    /\ loc' = [loc EXCEPT !["main"] = NoCall]
    /\ UNCHANGED <<twriter, active_tracer, gc_callbacks, tracing, clock>>
    /\ UNCHANGED calls
    /\ UNCHANGED <<wvars, avars, fvars>>

\* MemoryTracer.mark up to `current_time = time.time()`
MarkCall(t, name) ==
    /\ loc["main"].pc = "idle"
    /\ calls < MaxCalls
    /\ calls' = calls + 1
    /\ IF mark_returns(t)
       THEN /\ loc' = [loc EXCEPT !["main"] = Returned("mark", t, FALSE)]
            /\ UNCHANGED clock
       ELSE \E now \in Now :
            /\ Len(twriter[t].emitted) < MaxTraceEvents
            /\ clock' = now
            /\ loc' = [loc EXCEPT !["main"] =
                         [InCall("mark", t, "mark_emit", now) EXCEPT !.name = name]]
    /\ UNCHANGED <<tracer, twriter, active_tracer, gc_callbacks, tracing>>
    /\ UNCHANGED <<wvars, avars, fvars>>

\* the delta, encode_marker_event (which interns the name), write_event
MarkEmit ==
    /\ loc["main"].pc = "mark_emit"
    /\ LET t == loc["main"].t
           d == TimestampDelta(loc["main"].cur, tracer[t].last_event_time)
           r == get_or_create_func_id(tracer[t].format, loc["main"].name)
       IN  /\ tracer' = [tracer EXCEPT ![t].format = r.fmt]
           /\ twriter' = [twriter EXCEPT ![t] =
                             Timed(WriterEnqueue(@, NewEvent(@, "MARKER", d, 0, r.id)),
                                   loc["main"].cur)]
    /\ loc' = [loc EXCEPT !["main"].pc = "mark_set", !["main"].name = ""]
    /\ UNCHANGED <<active_tracer, gc_callbacks, tracing, clock>>
    /\ UNCHANGED calls
    /\ UNCHANGED <<wvars, avars, fvars>>

\* `self.last_event_time = current_time`
MarkFinish ==
    /\ loc["main"].pc = "mark_set"
    /\ tracer' = [tracer EXCEPT ![loc["main"].t].last_event_time = loc["main"].cur]
    /\ loc' = [loc EXCEPT !["main"] = NoCall]
    /\ UNCHANGED <<twriter, active_tracer, gc_callbacks, tracing, clock>>
    /\ UNCHANGED calls
    /\ UNCHANGED <<wvars, avars, fvars>>

\* the module-level mark(name): `if _active_tracer: _active_tracer.mark(name)`
ModuleMark(name) ==
    \/ ModuleIdle("module_mark")
    \/ /\ active_tracer # None
       /\ MarkCall(active_tracer, name)

\* the module-level snapshot(): `if _active_tracer: _active_tracer.snapshot()`
ModuleSnapshot ==
    \/ ModuleIdle("module_snapshot")
    \/ /\ active_tracer # None
       /\ SnapshotCall(active_tracer)

\* the collector calls a registered _on_gc(phase, info), on its own thread or
\* inside whatever the interrupted thread was doing
GcCall(t, phase) ==
    /\ loc["gc"].pc = "idle"
    /\ calls < MaxCalls
    /\ calls' = calls + 1
    /\ t \in gc_callbacks
    /\ IF phase # "stop" \/ ~tracer[t].has_writer
       THEN /\ loc' = [loc EXCEPT !["gc"] = Returned("gc_" \o phase, t, FALSE)]
            /\ UNCHANGED clock
       ELSE \E now \in Now :
            /\ Len(twriter[t].emitted) < MaxTraceEvents
            /\ clock' = now
            /\ loc' = [loc EXCEPT !["gc"] = InCall("gc_stop", t, "gc_emit", now)]
    /\ UNCHANGED <<tracer, twriter, active_tracer, gc_callbacks, tracing>>
    /\ UNCHANGED <<wvars, avars, fvars>>

\* the delta, encode_gc_event, write_event, `self.stats['gc_events'] += 1`
GcEmit ==
    /\ loc["gc"].pc = "gc_emit"
    /\ LET t == loc["gc"].t
           d == TimestampDelta(loc["gc"].cur, tracer[t].last_event_time)
       IN  /\ tracer' = [tracer EXCEPT ![t].stats.gc_events = @ + 1]
           /\ twriter' = [twriter EXCEPT ![t] =
                             Timed(WriterEnqueue(@, NewEvent(@, "GC", d, 0, 1)),
                                   loc["gc"].cur)]
    /\ loc' = [loc EXCEPT !["gc"].pc = "gc_set"]
    /\ UNCHANGED <<active_tracer, gc_callbacks, tracing, clock>>
    /\ UNCHANGED calls
    /\ UNCHANGED <<wvars, avars, fvars>>

\* `self.last_event_time = current_time`
GcFinish ==
    /\ loc["gc"].pc = "gc_set"
    /\ tracer' = [tracer EXCEPT ![loc["gc"].t].last_event_time = loc["gc"].cur]
    /\ loc' = [loc EXCEPT !["gc"] = NoCall]
    /\ UNCHANGED <<twriter, active_tracer, gc_callbacks, tracing, clock>>
    /\ UNCHANGED calls
    /\ UNCHANGED <<wvars, avars, fvars>>

\* the worker thread of a tracer's writer writes one batch
TracerWorker(t) ==
    /\ twriter[t].open
    /\ ~twriter[t].should_stop
    /\ twriter[t].queue # <<>>
    /\ twriter' = [twriter EXCEPT ![t] = WriterBatch(@)]
    /\ UNCHANGED <<tracer, active_tracer, gc_callbacks, tracing, clock, loc>>
    /\ UNCHANGED calls
    /\ UNCHANGED <<wvars, avars, fvars>>

\* is_tracing()
is_tracing == active_tracer # None /\ tracer[active_tracer].is_active

\* ========================================================= MemoryTracer claims
Stopped(t) == tracer[t].has_writer /\ ~tracer[t].is_active /\ ~twriter[t].open

\* C6 (as claimed): after stop() the metadata in the trace file is the final
\* intern tables, so every stack_id of an ALLOC event and every name_id of a
\* MARKER event in the file is a key of the file's metadata.
MetadataFinalized ==
    \A t \in Tracers : Stopped(t) =>
        /\ twriter[t].header_meta = Metadata(tracer[t].format)
        /\ \A i \in 1..Len(twriter[t].file) :
            LET e == twriter[t].file[i]
            IN  /\ e.tag = "ALLOC" => e.ref \in DOMAIN twriter[t].header_meta.stack_traces
                /\ e.tag = "MARKER" => e.ref \in DOMAIN twriter[t].header_meta.functions

\* C7 (as claimed): at most one tracer in the process is active.
SingleActiveTracer ==
    Cardinality({t \in Tracers : tracer[t].is_active}) <= 1

\* C8: stop() on a tracer that is not active returns at once, without raising,
\* and changes no tracer, writer, statistics, file or module state.
StopIdempotent ==
    [][\A th \in Callers :
         (/\ loc'[th] # loc[th]
          /\ loc'[th].op \in {"stop", "module_stop"}
          /\ ~tracer[loc'[th].t].is_active)
         => /\ UNCHANGED <<tracer, twriter, active_tracer, gc_callbacks, tracing>>
            /\ loc'[th].pc = "ret"
            /\ ~loc'[th].raised]_vars

StopIdempotentWitness ==
    /\ loc["main"].pc = "ret"
    /\ loc["main"].op = "stop"
    /\ ~loc["main"].active
    /\ Stopped(loc["main"].t)

\* C9 (as claimed): between calls, is_tracing() is true exactly when some
\* tracer has is_active = true.
IsTracingExact ==
    loc["main"].pc = "idle"
        => (is_tracing <=> \E t \in Tracers : tracer[t].is_active)

\* C10 (as claimed): every timestamp delta handed to the encoder is >= 0.
NonNegativeDeltas ==
    \A t \in Tracers : \A i \in 1..Len(twriter[t].emitted) :
        twriter[t].emitted[i].delta >= 0

\* C11 (as claimed): every event's timestamp delta is the time elapsed since
\* the previously emitted event of the trace, or since the header's start time
\* for the first event; this includes each event of one snapshot pull.
DeltaRelative ==
    \A t \in Tracers : \A i \in 1..Len(twriter[t].emitted) :
        twriter[t].emitted[i].delta =
            TimestampDelta(twriter[t].times[i],
                           IF i = 1 THEN tracer[t].start_time
                           ELSE twriter[t].times[i - 1])

Frees(top_stats) == {i \in 1..Len(top_stats) : top_stats[i].size_diff < 0}

\* C12 (as claimed): whatever the sample rate and the sampling counter, every
\* negative size delta of a pull produces a FREE event and adds 1 to
\* deallocations_tracked, and every GC 'stop' notification produces a GC event.
NeverSampledAway ==
    [][/\ (/\ loc["main"].pc \in {"stop_emit", "snap_emit"}
           /\ loc'["main"].pc # loc["main"].pc
           /\ tracer[loc["main"].t].prev_snapshot
           /\ tracer[loc["main"].t].has_writer)
          => LET t == loc["main"].t
                 n == Cardinality(Frees(loc["main"].stats))
                 new == SubSeq(twriter'[t].emitted, Len(twriter[t].emitted) + 1,
                               Len(twriter'[t].emitted))
             IN  /\ tracer'[t].stats.deallocations_tracked =
                        tracer[t].stats.deallocations_tracked + n
                 /\ Cardinality({i \in 1..Len(new) : new[i].tag = "FREE"}) = n
       /\ (loc["gc"].pc = "gc_emit" /\ loc'["gc"].pc # "gc_emit")
          => LET t == loc["gc"].t
             IN  /\ Len(twriter'[t].emitted) = Len(twriter[t].emitted) + 1
                 /\ twriter'[t].emitted[Len(twriter'[t].emitted)].tag = "GC"
                 /\ tracer'[t].stats.gc_events = tracer[t].stats.gc_events + 1]_vars

\* C30 (as claimed): none of the counters read through one tracer ever
\* decreases, whatever is called on the tracer, stop() followed by start()
\* included.
CountersMonotonic ==
    [][\A t \in Tracers :
        /\ tracer'[t].stats.allocations_seen >= tracer[t].stats.allocations_seen
        /\ tracer'[t].stats.allocations_tracked >= tracer[t].stats.allocations_tracked
        /\ tracer'[t].stats.deallocations_tracked
              >= tracer[t].stats.deallocations_tracked
        /\ tracer'[t].stats.gc_events >= tracer[t].stats.gc_events
        /\ twriter'[t].events_written >= twriter[t].events_written
        /\ twriter'[t].events_dropped >= twriter[t].events_dropped
        /\ twriter'[t].bytes_written >= twriter[t].bytes_written]_vars

\* a step of start() on tracer t, not refused, whose open(header) raised
OpenFailed(t) ==
    /\ loc["main"].pc = "idle"
    /\ loc'["main"].pc = "ret"
    /\ loc'["main"].op \in {"start", "module_start"}
    /\ loc'["main"].t = t
    /\ loc'["main"].raised
    /\ ~start_refuses(t)

\* C31 (as claimed): when opening the output file fails in start(), the
\* error reaches the caller and capture does not begin: the tracer stays
\* inactive, is_tracing() is not made true, no worker thread runs, and no
\* observation source (tracemalloc) or GC callback is left running that was
\* not running before the call.
OpenFailureClean ==
    [][\A t \in Tracers :
        OpenFailed(t)
        => /\ ~tracer'[t].is_active
           /\ active_tracer' = active_tracer
           /\ ~twriter'[t].open
           /\ gc_callbacks' = gc_callbacks
           /\ tracing' = tracing]_vars

\* the call just made on "main" returns at once and has touched neither a
\* tracer (intern tables, statistics, last_event_time) nor a writer (ring
\* buffer, file)
ReturnsUntouched ==
    /\ loc'["main"].pc = "ret"
    /\ ~loc'["main"].raised
    /\ tracer' = tracer
    /\ twriter' = twriter

\* C36: mark(name) or snapshot() on a tracer that is not active, never
\* started or already stopped, leaves the ring buffer, the intern tables, the
\* statistics, last_event_time and the file unchanged; so do the module-level
\* mark(name) and snapshot() when no tracer is active.
InactiveEmitsNothing ==
    [][loc["main"].pc = "idle"
       => /\ \A t \in Tracers :
                (/\ loc'["main"].op \in {"mark", "snapshot"}
                 /\ loc'["main"].t = t
                 /\ ~tracer[t].is_active)
                => ReturnsUntouched
          /\ loc'["main"].op \in {"module_mark", "module_snapshot"}
                => ReturnsUntouched]_vars

\* mark() has returned from a stopped tracer whose writer had recorded events
InactiveEmitsNothingWitness ==
    /\ loc["main"].pc = "ret"
    /\ loc["main"].op = "mark"
    /\ ~tracer[loc["main"].t].is_active
    /\ tracer[loc["main"].t].has_writer
    /\ twriter[loc["main"].t].emitted # <<>>

\* =================================== the sampling filter (tracer.py:55-57, 205-212)
\* ------------------------------------------------------------------ bounds
MaxDen     == 5   \* sample_rate ranges over the fractions num/den up to this den
MaxObserve == 8   \* entries of snapshot diffs one tracer observes

\* sample_rate as the exact fraction num / den, 0 < num <= den
Rates == {r \in (1..MaxDen) \X (1..MaxDen) : r[1] <= r[2]}

\* `int(1.0 / sample_rate) if sample_rate < 1.0 else 1`
sample_threshold(num, den) == IF num < den THEN den \div num ELSE 1

\* round(den / num) as Python rounds: to the nearest integer, ties to even
Round(den, num) ==
    LET q == den \div num
        r == den % num
    IN  IF 2 * r < num THEN q
        ELSE IF 2 * r > num THEN q + 1
        ELSE IF q % 2 = 0 THEN q ELSE q + 1

\* MemoryTracer(sample_rate = num / den), with a writer
NewSampler(num, den) ==
    [num |-> num, den |-> den, sample_threshold |-> sample_threshold(num, den),
     allocation_count |-> 0, allocations_seen |-> 0, allocations_tracked |-> 0,
     observed |-> 0, admitted |-> {}]

NoSampler == NewSampler(1, 1)

SamplerInit == \E r \in Rates : sampler = NewSampler(r[1], r[2])

\* one turn of the `for stat in top_stats` loop for an entry with
\* size_diff > 0; observed and admitted are history
Observe ==
    /\ sampler.observed < MaxObserve
    /\ LET s1   == [sampler EXCEPT !.allocations_seen = @ + 1, !.observed = @ + 1]
           s2   == IF s1.num < s1.den
                   THEN [s1 EXCEPT !.allocation_count = @ + 1] ELSE s1
           skip == /\ s2.num < s2.den
                   /\ s2.allocation_count % s2.sample_threshold # 0
       IN  sampler' = IF skip THEN s2
                      ELSE [s2 EXCEPT !.allocations_tracked = @ + 1,
                                      !.admitted = @ \cup {s2.observed}]
    /\ UNCHANGED <<input, data, cut, afmt, an>>
    /\ UNCHANGED <<wvars, tvars, fvars>>

\* C13 (as claimed): for sample_rate < 1 the admitted allocations are exactly
\* those whose 1-based ordinal is a multiple of round(1 / sample_rate), and
\* allocations_seen counts every observed allocation.
SamplingStride ==
    sampler.num < sampler.den =>
        /\ sampler.allocations_seen = sampler.observed
        /\ sampler.admitted =
              {k \in 1..sampler.observed : k % Round(sampler.den, sampler.num) = 0}
        /\ sampler.allocations_tracked = Cardinality(sampler.admitted)

NextSampler == Observe

\* ======================= event encoding (format.py) and cmd_analyze (__main__.py)
\* ------------------------------------------------------------------ bounds
MaxStream == 4    \* events written to one event stream

\* ------------------------------------------------- scaled program constants
WarnBytes == 150  \* __main__.py:236 WARNING above 100 KiB; scaled down
CritBytes == 300  \* __main__.py:232 CRITICAL above 1 MiB; scaled down

\* EventType
ALLOC  == 0
FREE   == 1
GC     == 2
MARKER == 3

\* the field values events are encoded with
Deltas      == {3}
Addresses   == {0, 1}
Sizes       == {1, 200}
StackIds    == {0}
ThreadIds   == {258}
Collected   == {200}
MarkerNames == {"a", "b"}
UnknownTags == {4}

\* mutant of encode_varint: the low seven bits only
encode_varint_low7(value) == <<value % 128>>

RECURSIVE encode_varint(_)
\* `while value > 127: append((value & 0x7F) | 0x80); value >>= 7`, then
\* `append(value & 0x7F)`
encode_varint(value) ==
    IF value > 127
    THEN <<(value % 128) + 128>> \o encode_varint(value \div 128)
    ELSE <<value % 128>>

RECURSIVE Pack(_, _)
\* struct.pack of an unsigned integer of n bytes, little-endian
Pack(value, n) ==
    IF n = 0 THEN <<>> ELSE <<value % 256>> \o Pack(value \div 256, n - 1)

\* a uint64 is kept as its 8 bytes wherever it is a value of the model
U64(value) == Pack(value, 8)

encode_alloc_event(timestamp_delta, address, size, stack_id, thread_id) ==
    <<ALLOC>> \o encode_varint(timestamp_delta) \o Pack(address, 8)
        \o encode_varint(size) \o encode_varint(stack_id) \o Pack(thread_id, 2)

encode_free_event(timestamp_delta, address) ==
    <<FREE>> \o encode_varint(timestamp_delta) \o Pack(address, 8)

encode_gc_event(timestamp_delta, objects_collected, bytes_freed) ==
    <<GC>> \o encode_varint(timestamp_delta) \o encode_varint(objects_collected)
        \o encode_varint(bytes_freed)

\* interns the name in the functions table, then writes its id
encode_marker_event(fmt, timestamp_delta, name) ==
    LET r == get_or_create_func_id(fmt, name)
    IN  [fmt  |-> r.fmt,
         id   |-> r.id,
         data |-> <<MARKER>> \o encode_varint(timestamp_delta) \o encode_varint(r.id)]

RECURSIVE ReadVarintFrom(_, _, _, _)
\* the loop of _read_varint at offset pos; f.read(1) at end of file makes it
\* `return 0`
ReadVarintFrom(d, pos, result, shift) ==
    IF pos >= Len(d) THEN [value |-> 0, pos |-> pos]
    ELSE LET byte == d[pos + 1]
             \* `result |= (byte & 0x7F) << shift`: the bits are new ones
             res  == IF byte % 128 = 0 THEN result
                     ELSE result + (byte % 128) * (2 ^ shift)
         IN  IF byte < 128 THEN [value |-> res, pos |-> pos + 1]
             ELSE ReadVarintFrom(d, pos + 1, res, shift + 7)

read_varint(d, pos) == ReadVarintFrom(d, pos, 0, 0)

RECURSIVE LittleEndian(_)
LittleEndian(bytes) ==
    IF bytes = <<>> THEN 0 ELSE Head(bytes) + 256 * LittleEndian(Tail(bytes))

\* struct.unpack(fmt, f.read(n)): f.read returns what is left of the file, and
\* unpack raises struct.error unless it got n bytes; a 'Q' stays 8 bytes, an
\* 'H' becomes its number
Unpack(d, pos, n) ==
    IF pos + n <= Len(d)
    THEN [ok |-> TRUE,
          value |-> IF n = 8 THEN SubSeq(d, pos + 1, pos + n)
                    ELSE LittleEndian(SubSeq(d, pos + 1, pos + n)),
          pos |-> pos + n]
    ELSE [ok |-> FALSE, value |-> 0, pos |-> Len(d)]

\* ---- cmd_analyze
TopN == 5         \* __main__.py:194 the report lists the first 5 call sites

NoReport ==
    [events |-> 0, allocations |-> 0, deallocations |-> 0, gc_events |-> 0,
     still_allocated |-> 0, leaked_bytes |-> 0, top |-> <<>>,
     total_allocated |-> 0, total_freed |-> 0, severity |-> "none"]

\* the locals of cmd_analyze before the file is opened; decoded is history:
\* what each turn of the parse loop read, and from which bytes
NoAnalysis ==
    [status |-> "idle", pos |-> 0, current_time |-> 0, event_count |-> 0,
     alloc_count |-> 0, free_count |-> 0, gc_count |-> 0,
     allocations |-> EmptyMap, alloc_by_stack |-> <<>>, decoded |-> <<>>,
     report |-> NoReport, exit_code |-> -1]

\* an event as written or as read: tag, delta, payload fields in file order,
\* and the offsets of its first byte and of the byte after its last
Event(tag, delta, fields, first, last) ==
    [tag |-> tag, delta |-> delta, fields |-> fields, first |-> first,
     last |-> last]

\* an exception inside the `try`: "Failed to parse", `return 1`
Failed(a, pos) == [a EXCEPT !.status = "failed", !.pos = pos, !.exit_code = 1]

\* `alloc_by_stack[stack_id]['count'] += 1`, `['total_bytes'] += size`; the
\* dict keeps its keys in insertion order
Bump(by_stack, stack_id, size) ==
    IF \E i \in 1..Len(by_stack) : by_stack[i].stack_id = stack_id
    THEN [i \in 1..Len(by_stack) |->
            IF by_stack[i].stack_id = stack_id
            THEN [by_stack[i] EXCEPT !.count = @ + 1, !.total_bytes = @ + size]
            ELSE by_stack[i]]
    ELSE Append(by_stack, [stack_id |-> stack_id, count |-> 1, total_bytes |-> size])

\* mutant of free_entry: a FREE for an unknown address creates a freed entry
free_entry_creates(allocations, address) ==
    IF address \in DOMAIN allocations
    THEN [allocations EXCEPT ![address].freed = TRUE]
    ELSE Put(allocations, address,
             [size |-> 0, stack_id |-> 0, time |-> 0, freed |-> TRUE])

\* `if address in allocations: allocations[address]['freed'] = True`
free_entry(allocations, address) ==
    IF address \in DOMAIN allocations
    THEN [allocations EXCEPT ![address].freed = TRUE]
    ELSE allocations

\* one turn of `while True` that read a tag byte: the event at a.pos
parse_event(a, d) ==
    LET event_type == d[a.pos + 1]
        dl == read_varint(d, a.pos + 1)
        a1 == [a EXCEPT !.event_count = @ + 1, !.current_time = @ + dl.value]
    IN  IF event_type = ALLOC
        THEN LET address   == Unpack(d, dl.pos, 8)
                 size      == read_varint(d, address.pos)
                 stack_id  == read_varint(d, size.pos)
                 thread_id == Unpack(d, stack_id.pos, 2)
             IN  IF ~address.ok THEN Failed(a1, address.pos)
                 ELSE IF ~thread_id.ok THEN Failed(a1, thread_id.pos)
                 ELSE [a1 EXCEPT
                         !.pos = thread_id.pos,
                         !.allocations =
                             Put(@, address.value,
                                 [size |-> size.value, stack_id |-> stack_id.value,
                                  time |-> a1.current_time, freed |-> FALSE]),
                         !.alloc_by_stack = Bump(@, stack_id.value, size.value),
                         !.alloc_count = @ + 1,
                         !.decoded = Append(@,
                             Event(event_type, dl.value,
                                   <<address.value, size.value, stack_id.value,
                                     thread_id.value>>, a.pos, thread_id.pos))]
        ELSE IF event_type = FREE
        THEN LET address == Unpack(d, dl.pos, 8)
             IN  IF ~address.ok THEN Failed(a1, address.pos)
                 ELSE [a1 EXCEPT
                         !.pos = address.pos,
                         !.allocations = free_entry(@, address.value),
                         !.free_count = @ + 1,
                         !.decoded = Append(@,
                             Event(event_type, dl.value, <<address.value>>,
                                   a.pos, address.pos))]
        ELSE IF event_type = GC
        THEN LET objects     == read_varint(d, dl.pos)
                 bytes_freed == read_varint(d, objects.pos)
             IN  [a1 EXCEPT
                    !.pos = bytes_freed.pos,
                    !.gc_count = @ + 1,
                    !.decoded = Append(@,
                        Event(event_type, dl.value,
                              <<objects.value, bytes_freed.value>>,
                              a.pos, bytes_freed.pos))]
        ELSE \* no branch for any other tag: the loop goes on at the next byte
             [a1 EXCEPT
                !.pos = dl.pos,
                !.decoded = Append(@, Event(event_type, dl.value, <<>>,
                                            a.pos, dl.pos))]

RECURSIVE SumSizes(_, _)
\* sum(a['size'] for a in ...) over the entries at the addresses in S
SumSizes(allocations, S) ==
    IF S = {} THEN 0
    ELSE LET x == CHOOSE y \in S : TRUE
         IN  allocations[x].size + SumSizes(allocations, S \ {x})

RECURSIVE SumBytes(_)
\* sum(s['total_bytes'] for s in alloc_by_stack.values())
SumBytes(by_stack) ==
    IF by_stack = <<>> THEN 0
    ELSE Head(by_stack).total_bytes + SumBytes(Tail(by_stack))

RECURSIVE sorted_stacks(_)
\* sorted(..., key=total_bytes, reverse=True): descending and stable
sorted_stacks(by_stack) ==
    IF by_stack = <<>> THEN <<>>
    ELSE LET i == CHOOSE j \in 1..Len(by_stack) :
                    /\ \A k \in 1..Len(by_stack) :
                          by_stack[k].total_bytes <= by_stack[j].total_bytes
                    /\ \A k \in 1..(j - 1) :
                          by_stack[k].total_bytes < by_stack[j].total_bytes
         IN  <<by_stack[i]>> \o
             sorted_stacks(SubSeq(by_stack, 1, i - 1) \o
                           SubSeq(by_stack, i + 1, Len(by_stack)))

\* mutant of leaks: the freed entries count as leaks too
leaks_all(allocations) == DOMAIN allocations

\* `leaks = [a for a in allocations.values() if not a['freed']]`, by address
leaks(allocations) == {x \in DOMAIN allocations : ~allocations[x].freed}

\* the report printed after the parse loop, lines 172-239; percentages are
\* whole percents
Report(a) ==
    LET leaked_bytes == SumSizes(a.allocations, leaks(a.allocations))
        first5 == SubSeq(sorted_stacks(a.alloc_by_stack), 1,
                         Min(TopN, Len(a.alloc_by_stack)))
        total  == SumBytes(a.alloc_by_stack)
    IN  [events          |-> a.event_count,
         allocations     |-> a.alloc_count,
         deallocations   |-> a.free_count,
         gc_events       |-> a.gc_count,
         still_allocated |-> Cardinality(leaks(a.allocations)),
         leaked_bytes    |-> leaked_bytes,
         top             |-> [i \in 1..Len(first5) |->
                                [stack_id    |-> first5[i].stack_id,
                                 total_bytes |-> first5[i].total_bytes,
                                 pct |-> IF total = 0 THEN 0
                                         ELSE (first5[i].total_bytes * 100) \div total]],
         total_allocated |-> SumSizes(a.allocations, DOMAIN a.allocations),
         total_freed     |-> SumSizes(a.allocations,
                                 {x \in DOMAIN a.allocations : a.allocations[x].freed}),
         severity        |-> IF leaked_bytes > CritBytes THEN "CRITICAL"
                             ELSE IF leaked_bytes > WarnBytes THEN "WARNING"
                             ELSE "none"]

AnalyzerInit ==
    /\ input = <<>>
    /\ data = <<>>
    /\ cut = FALSE
    /\ afmt = NewFormat
    /\ an = NoAnalysis

\* ---- writing an event stream
Written(bytes, tag, delta, fields) ==
    /\ an.status = "idle"
    /\ ~cut
    /\ Len(input) < MaxStream
    /\ data' = data \o bytes
    /\ input' = Append(input, Event(tag, delta, fields, Len(data),
                                     Len(data) + Len(bytes)))
    /\ UNCHANGED <<cut, an, sampler>>
    /\ UNCHANGED <<wvars, tvars, fvars>>

EncodeAlloc ==
    \E delta \in Deltas, address \in Addresses, size \in Sizes,
       stack_id \in StackIds, thread_id \in ThreadIds :
        /\ Written(encode_alloc_event(delta, address, size, stack_id, thread_id),
                   ALLOC, delta, <<U64(address), size, stack_id, thread_id>>)
        /\ UNCHANGED afmt

EncodeFree ==
    \E delta \in Deltas, address \in Addresses :
        /\ Written(encode_free_event(delta, address), FREE, delta, <<U64(address)>>)
        /\ UNCHANGED afmt

EncodeGc ==
    \E delta \in Deltas, objects \in Collected :
        /\ Written(encode_gc_event(delta, objects, 0), GC, delta, <<objects, 0>>)
        /\ UNCHANGED afmt

EncodeMarker ==
    \E delta \in Deltas, name \in MarkerNames :
        LET r == encode_marker_event(afmt, delta, name)
        IN  /\ Written(r.data, MARKER, delta, <<r.id>>)
            /\ afmt' = r.fmt

\* bytes no encoder of format.py produces: a tag outside EventType, a delta
WriteUnknown ==
    \E tag \in UnknownTags, delta \in Deltas :
        /\ Written(<<tag>> \o encode_varint(delta), tag, delta, <<>>)
        /\ UNCHANGED afmt

\* the file ends k bytes early, inside its last event
Truncate ==
    /\ an.status = "idle"
    /\ ~cut
    /\ input # <<>>
    /\ \E k \in 1..(Len(data) - input[Len(input)].first - 1) :
        data' = SubSeq(data, 1, Len(data) - k)
    /\ cut' = TRUE
    /\ UNCHANGED <<input, afmt, an, sampler>>
    /\ UNCHANGED <<wvars, tvars, fvars>>

\* `if not event_type_bytes: break`, the report, `return 0`; the percentage
\* of line 216 divides by the sum of total_bytes, and ZeroDivisionError lands
\* in the `except` like any other exception
analyze_report(a) ==
    IF a.alloc_by_stack # <<>> /\ SumBytes(a.alloc_by_stack) = 0
    THEN Failed(a, a.pos)
    ELSE [a EXCEPT !.status = "done", !.report = Report(a), !.exit_code = 0]

RECURSIVE parse_loop(_, _)
\* `while True:` from the file position a.pos of the bytes d
parse_loop(a, d) ==
    IF a.status # "parsing" THEN a
    ELSE IF a.pos >= Len(d) THEN analyze_report(a)
    ELSE parse_loop(parse_event(a, d), d)

\* cmd_analyze on the file: header and metadata are read, the file position
\* is the start of the event stream, `current_time = start_time`; then the
\* parse loop and the report
cmd_analyze(d) == parse_loop([NoAnalysis EXCEPT !.status = "parsing"], d)

Analyze ==
    /\ an.status = "idle"
    /\ an' = cmd_analyze(data)
    /\ UNCHANGED <<input, data, cut, afmt, sampler>>
    /\ UNCHANGED <<wvars, tvars, fvars>>

\* ============================================================ analyzer claims
Ended == an.status \in {"done", "failed"}

\* the written events all have their tag in S
Kinds(S) == \A i \in 1..Len(input) : input[i].tag \in S

\* the written events that name the address x (ALLOC and FREE events)
At(x) == {i \in 1..Len(input) :
            input[i].tag \in {ALLOC, FREE} /\ input[i].fields[1] = x}

Last(S) == CHOOSE i \in S : \A j \in S : j <= i

\* C14: after a replay of ALLOC and FREE events an address is in the leak set
\* iff its most recent event was an ALLOC, and only addresses that were seen
\* allocated have an entry.
LeakSetEquivalence ==
    (Ended /\ ~cut /\ Kinds({ALLOC, FREE})) =>
        /\ an.status = "done"
        /\ \A a \in Addresses :
            LET x == U64(a)
            IN  /\ (x \in DOMAIN an.allocations /\ ~an.allocations[x].freed)
                      <=> (At(x) # {} /\ input[Last(At(x))].tag = ALLOC)
                /\ x \in DOMAIN an.allocations
                      <=> \E i \in At(x) : input[i].tag = ALLOC
        /\ DOMAIN an.allocations \subseteq {U64(a) : a \in Addresses}
        /\ an.report.still_allocated =
              Cardinality({a \in Addresses :
                  At(U64(a)) # {} /\ input[Last(At(U64(a)))].tag = ALLOC})

\* an address allocated, freed and allocated again is a leak, next to a FREE
\* for an address that was never allocated
LeakSetWitness ==
    /\ an.status = "done"
    /\ ~cut
    /\ Kinds({ALLOC, FREE})
    /\ \E a, b \in Addresses :
        /\ a # b
        /\ \E i, j \in At(U64(a)) :
              i < j /\ input[i].tag = FREE /\ input[j].tag = ALLOC
                    /\ j = Last(At(U64(a)))
        /\ At(U64(b)) # {}
        /\ \A i \in At(U64(b)) : input[i].tag = FREE
        /\ U64(a) \in DOMAIN an.allocations
        /\ ~an.allocations[U64(a)].freed

\* N ALLOC events of one size at one stack, address 0, and nothing else
LeakRun ==
    /\ input # <<>>
    /\ \A i \in 1..Len(input) :
        /\ input[i].tag = ALLOC
        /\ input[i].fields[1] = U64(0)
        /\ input[i].fields[2] = input[1].fields[2]
        /\ input[i].fields[3] = input[1].fields[3]

\* C15 (as claimed): for N ALLOC events of size s at one stack S and address
\* 0, the report has allocations = N, deallocations = 0, leak bytes = N * s
\* and S as the top allocator at 100%.
LeakSimulation ==
    (Ended /\ ~cut /\ LeakRun) =>
        /\ an.status = "done"
        /\ an.report.allocations = Len(input)
        /\ an.report.deallocations = 0
        /\ an.report.leaked_bytes = Len(input) * input[1].fields[2]
        /\ an.report.top # <<>>
        /\ an.report.top[1].stack_id = input[1].fields[3]
        /\ an.report.top[1].pct = 100

\* N >= 1 ALLOC events at address 0 followed by N FREE events at address 0
PairedRun(n) ==
    /\ n >= 1
    /\ Len(input) = 2 * n
    /\ \A i \in 1..Len(input) :
        /\ input[i].tag = IF i <= n THEN ALLOC ELSE FREE
        /\ input[i].fields[1] = U64(0)

\* C16: for N ALLOC events at address 0 followed by N FREE events at address
\* 0 the report has 0 bytes still in use and no CRITICAL or WARNING flag.
FullyPaired ==
    (Ended /\ ~cut /\ \E n \in 1..MaxStream : PairedRun(n)) =>
        /\ an.status = "done"
        /\ an.report.leaked_bytes = 0
        /\ an.report.severity = "none"

\* two allocations that alone would raise a flag, both freed
FullyPairedWitness ==
    /\ an.status = "done"
    /\ ~cut
    /\ PairedRun(2)
    /\ input[1].fields[2] > WarnBytes
    /\ an.report.allocations = 2
    /\ an.report.deallocations = 2

\* C17 (as claimed): when the file ends inside an event, the analyzer drops
\* the partial event, counts the complete events before it, emits the report
\* and exits with code 0.
TruncatedTrace ==
    (Ended /\ cut /\ Kinds({ALLOC, FREE, GC})) =>
        /\ an.exit_code = 0
        /\ an.status = "done"
        /\ an.event_count = Len(input) - 1
        /\ an.report.events = Len(input) - 1
        /\ an.report.allocations + an.report.deallocations + an.report.gc_events
              = Len(input) - 1

\* C18 (as claimed): an event whose tag is none of 0..3 makes the analyzer
\* abort with a diagnostic; the tag is not counted as an event and nothing
\* after it is decoded.
UnknownTagAborts ==
    (Ended /\ ~cut /\ Kinds({ALLOC, FREE, GC} \cup UnknownTags)
           /\ ~Kinds({ALLOC, FREE, GC})) =>
        LET k == CHOOSE i \in 1..Len(input) :
                    /\ input[i].tag \in UnknownTags
                    /\ \A j \in 1..(i - 1) : input[j].tag \notin UnknownTags
        IN  /\ an.status = "failed"
            /\ an.event_count = k - 1
            /\ an.pos <= input[k].first + 1

\* C19 (as claimed): the analyzer decodes the bytes of one encoded event of
\* any variant to the same tag, delta and payload fields and consumes exactly
\* the encoded bytes.
EventRoundTrip ==
    (Ended /\ ~cut /\ Len(input) = 1 /\ Kinds({ALLOC, FREE, GC, MARKER})) =>
        /\ an.status = "done"
        /\ an.decoded = input
        /\ an.pos = Len(data)

\* C20 (as claimed): in a stream of encoded ALLOC, FREE, GC and MARKER events
\* the analyzer finds every event boundary: it sees the events that were
\* written, kind by kind, each MARKER with its name_id, and reads no payload
\* byte as a tag.
StreamFraming ==
    (Ended /\ ~cut /\ Kinds({ALLOC, FREE, GC, MARKER})) =>
        /\ an.status = "done"
        /\ an.event_count = Len(input)
        /\ Len(an.decoded) = Len(input)
        /\ \A i \in 1..Len(input) :
            /\ an.decoded[i].first = input[i].first
            /\ an.decoded[i].tag = input[i].tag
            /\ input[i].tag = MARKER => an.decoded[i].fields = input[i].fields
        /\ \A tag \in {ALLOC, FREE, GC, MARKER} :
              Cardinality({i \in 1..Len(an.decoded) : an.decoded[i].tag = tag})
                = Cardinality({i \in 1..Len(input) : input[i].tag = tag})

NextAnalyze ==
    \/ EncodeAlloc
    \/ EncodeFree
    \/ EncodeGc
    \/ EncodeMarker
    \/ WriteUnknown
    \/ Truncate
    \/ Analyze

\* ============================ the varint codec (format.py, __main__.py)
\* ------------------------------------------------------------------ bounds
MaxBits         == 29   \* the encoded values go up to 2^MaxBits + 1
MaxContinuation == 11   \* continuation bytes in a byte string no encoder wrote

\* the values around every power of two: each encoded length, and both sides
\* of each step from one length to the next
VarintValues == UNION {{2 ^ k - 1, 2 ^ k, 2 ^ k + 1} : k \in 0..MaxBits}

\* what follows the varint in the data handed to the decoders
Tails == {<<>>, <<129, 1>>}

RECURSIVE DecodeVarintFrom(_, _, _, _)
\* the loop of decode_varint at offset pos; `data[pos]` past the end raises
\* IndexError
DecodeVarintFrom(d, pos, value, shift) ==
    IF pos >= Len(d) THEN [ok |-> FALSE, value |-> value, pos |-> pos]
    ELSE LET byte == d[pos + 1]
             \* `value |= (byte & 0x7F) << shift`: the bits are new ones
             v    == IF byte % 128 = 0 THEN value
                     ELSE value + (byte % 128) * (2 ^ shift)
         IN  IF byte < 128 THEN [ok |-> TRUE, value |-> v, pos |-> pos + 1]
             ELSE DecodeVarintFrom(d, pos + 1, v, shift + 7)

decode_varint(d, offset) == DecodeVarintFrom(d, offset, 0, 0)

NoVarint ==
    [source |-> "none", n |-> 0, len |-> 0, data |-> <<>>, ran |-> {},
     returned |-> {}, dec |-> [ok |-> FALSE, value |-> 0, pos |-> 0],
     rd |-> [value |-> 0, pos |-> 0]]

\* encode_varint(n), written in front of some other bytes
EncodeVarint ==
    /\ varint.source = "none"
    /\ \E n \in VarintValues, tail \in Tails :
        LET bytes == encode_varint(n)
        IN  varint' = [NoVarint EXCEPT !.source = "encode_varint", !.n = n,
                                       !.len = Len(bytes), !.data = bytes \o tail]
    /\ UNCHANGED <<format, interns, header>>
    /\ UNCHANGED <<wvars, tvars, avars>>

\* bytes from elsewhere: k bytes with the high bit set, with or without a byte
\* that ends the varint
RawVarint ==
    /\ varint.source = "none"
    /\ \E k \in 1..MaxContinuation, first \in {128, 133}, last \in {<<>>, <<0>>} :
        LET bytes == <<first>> \o [i \in 1..(k - 1) |-> 128] \o last
        IN  varint' = [NoVarint EXCEPT !.source = "raw", !.len = Len(bytes),
                                       !.data = bytes]
    /\ UNCHANGED <<format, interns, header>>
    /\ UNCHANGED <<wvars, tvars, avars>>

\* TraceFormat.decode_varint(data, 0)
DecodeVarint ==
    /\ varint.source # "none"
    /\ "decode_varint" \notin varint.ran
    /\ LET r == decode_varint(varint.data, 0)
       IN  varint' = [varint EXCEPT
                        !.ran = @ \cup {"decode_varint"},
                        !.returned = IF r.ok THEN @ \cup {"decode_varint"} ELSE @,
                        !.dec = r]
    /\ UNCHANGED <<format, interns, header>>
    /\ UNCHANGED <<wvars, tvars, avars>>

\* _read_varint(f) on a file holding the data, from position 0; every path
\* through it ends in a `return`
ReadVarint ==
    /\ varint.source # "none"
    /\ "_read_varint" \notin varint.ran
    /\ varint' = [varint EXCEPT
                    !.ran = @ \cup {"_read_varint"},
                    !.returned = @ \cup {"_read_varint"},
                    !.rd = read_varint(varint.data, 0)]
    /\ UNCHANGED <<format, interns, header>>
    /\ UNCHANGED <<wvars, tvars, avars>>

NextVarint ==
    \/ EncodeVarint
    \/ RawVarint
    \/ DecodeVarint
    \/ ReadVarint

\* ---------------------------------------------------------- varint claims
\* C21: decode_varint(encode_varint(n), 0) is (n, len(encode_varint(n))),
\* _read_varint returns n and stops after the same bytes, and every encoded
\* byte but the last has its high bit set.
VarintRoundTrip ==
    varint.source = "encode_varint" =>
        /\ "decode_varint" \in varint.ran =>
              varint.dec = [ok |-> TRUE, value |-> varint.n, pos |-> varint.len]
        /\ "_read_varint" \in varint.ran =>
              varint.rd = [value |-> varint.n, pos |-> varint.len]
        /\ varint.len >= 1
        /\ \A i \in 1..varint.len : (varint.data[i] >= 128) <=> (i < varint.len)

\* a four-byte varint with other bytes behind it, read by both decoders
VarintRoundTripWitness ==
    /\ varint.source = "encode_varint"
    /\ varint.ran = {"decode_varint", "_read_varint"}
    /\ varint.n >= 2 ^ 21
    /\ varint.len >= 4
    /\ Len(varint.data) > varint.len
    /\ varint.dec.value = varint.n

\* the bytes with the high bit set at the start of d
RECURSIVE Continuations(_)
Continuations(d) ==
    IF d = <<>> \/ Head(d) < 128 THEN 0 ELSE 1 + Continuations(Tail(d))

\* C22 (as claimed): a byte string with more than 10 continuation bytes is
\* rejected by both decoders: neither returns a value for it.
VarintOverflow ==
    Continuations(varint.data) > 10 => varint.returned = {}

\* ================================= interning and the header (format.py)
\* ------------------------------------------------------------------ bounds
MaxInterns == 3   \* interning calls on one TraceFormat

\* frame sequences (filename, lineno, funcname) that share files and functions
StackA == << <<"a.py", 1, "f">> >>
StackB == << <<"a.py", 1, "f">>, <<"b.py", 2, "g">> >>
StackC == << <<"b.py", 1, "f">> >>
Stacks == {StackA, StackB, StackC}

\* marker names: one that is also a function name, one that is not
InternNames == {"f", "m"}

NoHeader ==
    [stage |-> "none", start_us |-> 0, data |-> <<>>, edit |-> "none",
     ran |-> {},
     parsed |-> [ok |-> FALSE, error |-> "none", metadata |-> <<>>, offset |-> 0],
     exit_code |-> -1, report |-> NoReport]

\* get_or_create_stack_id(stack_trace)
InternStack ==
    /\ header.stage = "none"
    /\ Len(interns) < MaxInterns
    /\ \E stack_trace \in Stacks :
        LET r == get_or_create_stack_id(format, stack_trace)
        IN  /\ format' = r.fmt
            /\ interns' = Append(interns,
                             [op |-> "stack", arg |-> stack_trace, id |-> r.id,
                              changed |-> r.fmt # format])
    /\ UNCHANGED <<varint, header>>
    /\ UNCHANGED <<wvars, tvars, avars>>

\* encode_marker_event(delta, name), as mark() calls it: the name is interned
\* in the functions table
InternMarker ==
    /\ header.stage = "none"
    /\ Len(interns) < MaxInterns
    /\ \E name \in InternNames, delta \in Deltas :
        LET r == encode_marker_event(format, delta, name)
        IN  /\ format' = r.fmt
            /\ interns' = Append(interns,
                             [op |-> "marker", arg |-> name, id |-> r.id,
                              changed |-> r.fmt # format])
    /\ UNCHANGED <<varint, header>>
    /\ UNCHANGED <<wvars, tvars, avars>>

\* ---- text and bytes
\* printable ASCII, 32..126 without the grave accent (96)
Ascii == " !\"#$%&'()*+,-./0123456789:;<=>?@ABCDEFGHIJKLMNOPQRSTUVWXYZ[\\]^_abcdefghijklmnopqrstuvwxyz{|}~"

CharAt(text, p) == SubSeq(text, p, p)

Ord(c) ==
    LET i == CHOOSE j \in 1..Len(Ascii) : CharAt(Ascii, j) = c
    IN  IF i <= 64 THEN 31 + i ELSE 32 + i

\* a byte that is no printable ASCII character decodes to a control character
Chr(b) ==
    IF b \in 32..95 THEN CharAt(Ascii, b - 31)
    ELSE IF b \in 97..126 THEN CharAt(Ascii, b - 32)
    ELSE "\t"

\* str.encode('utf-8') of ASCII text
utf8_encode(text) == [i \in 1..Len(text) |-> Ord(CharAt(text, i))]

RECURSIVE utf8_decode(_)
\* bytes.decode('utf-8')
utf8_decode(bytes) ==
    IF bytes = <<>> THEN ""
    ELSE IF Len(bytes) = 1 THEN Chr(bytes[1])
    ELSE LET half == Len(bytes) \div 2
         IN  utf8_decode(SubSeq(bytes, 1, half))
                 \o utf8_decode(SubSeq(bytes, half + 1, Len(bytes)))

\* ---- json.dumps(self.metadata)
RECURSIVE SortedKeys(_)
\* the ids of a table in the order they were inserted
SortedKeys(S) ==
    IF S = {} THEN <<>> ELSE <<Minimum(S)>> \o SortedKeys(S \ {Minimum(S)})

RECURSIVE Joined(_)
\* ", ".join(parts)
Joined(parts) ==
    IF parts = <<>> THEN ""
    ELSE IF Len(parts) = 1 THEN parts[1]
    ELSE parts[1] \o ", " \o Joined(Tail(parts))

Quoted(text) == "\"" \o text \o "\""

dumps_frame(f) ==
    "{\"file_id\": " \o ToString(f.file_id) \o ", \"line\": " \o ToString(f.line)
        \o ", \"func_id\": " \o ToString(f.func_id) \o "}"

dumps_frames(frames) ==
    "[" \o Joined([i \in 1..Len(frames) |-> dumps_frame(frames[i])]) \o "]"

\* a table whose values are strings; the key of id i is str(i)
dumps_names(table) ==
    LET keys == SortedKeys(DOMAIN table)
    IN  "{" \o Joined([i \in 1..Len(keys) |->
                         Quoted(ToString(keys[i])) \o ": " \o Quoted(table[keys[i]])])
            \o "}"

dumps_stacks(table) ==
    LET keys == SortedKeys(DOMAIN table)
    IN  "{" \o Joined([i \in 1..Len(keys) |->
                         Quoted(ToString(keys[i])) \o ": "
                             \o dumps_frames(table[keys[i]])])
            \o "}"

json_dumps(fmt) ==
    "{\"stack_traces\": " \o dumps_stacks(fmt.stack_traces)
        \o ", \"files\": " \o dumps_names(fmt.files)
        \o ", \"functions\": " \o dumps_names(fmt.functions) \o "}"

\* self.metadata as Python holds it: every table is keyed by str(id)
StrKeyed(table) ==
    [k \in {ToString(i) : i \in DOMAIN table} |->
        table[CHOOSE i \in DOMAIN table : ToString(i) = k]]

MetadataDict(fmt) ==
    [stack_traces |-> StrKeyed(fmt.stack_traces), files |-> StrKeyed(fmt.files),
     functions |-> StrKeyed(fmt.functions)]

\* ---- json.loads(text): objects, arrays, strings and non-negative integers
JsonError == [ok |-> FALSE, value |-> 0, pos |-> 0]

IsDigit(c) == \E k \in 0..9 : ToString(k) = c
DigitOf(c) == CHOOSE k \in 0..9 : ToString(k) = c

RECURSIVE SkipSpace(_, _)
SkipSpace(text, p) ==
    IF p <= Len(text) /\ CharAt(text, p) = " " THEN SkipSpace(text, p + 1) ELSE p

Is(text, p, c) == p <= Len(text) /\ CharAt(text, p) = c

RECURSIVE json_int(_, _, _)
json_int(text, p, acc) ==
    IF p <= Len(text) /\ IsDigit(CharAt(text, p))
    THEN json_int(text, p + 1, acc * 10 + DigitOf(CharAt(text, p)))
    ELSE [ok |-> TRUE, value |-> acc, pos |-> p]

RECURSIVE json_string(_, _, _)
\* the characters after an opening quote, up to the closing one; an escape or
\* a control character is outside what is modelled and counts as an error
json_string(text, p, acc) ==
    IF p > Len(text) \/ CharAt(text, p) \in {"\\", "\t"} THEN JsonError
    ELSE IF CharAt(text, p) = "\"" THEN [ok |-> TRUE, value |-> acc, pos |-> p + 1]
    ELSE json_string(text, p + 1, acc \o CharAt(text, p))

RECURSIVE json_value(_, _)
RECURSIVE json_members(_, _, _)
RECURSIVE json_items(_, _, _)

json_value(text, p0) ==
    LET p == SkipSpace(text, p0)
    IN  IF Is(text, p, "{")
        THEN IF Is(text, SkipSpace(text, p + 1), "}")
             THEN [ok |-> TRUE, value |-> EmptyMap, pos |-> SkipSpace(text, p + 1) + 1]
             ELSE json_members(text, p + 1, EmptyMap)
        ELSE IF Is(text, p, "[")
        THEN IF Is(text, SkipSpace(text, p + 1), "]")
             THEN [ok |-> TRUE, value |-> <<>>, pos |-> SkipSpace(text, p + 1) + 1]
             ELSE json_items(text, p + 1, <<>>)
        ELSE IF Is(text, p, "\"") THEN json_string(text, p + 1, "")
        ELSE IF p <= Len(text) /\ IsDigit(CharAt(text, p)) THEN json_int(text, p, 0)
        ELSE JsonError

\* `"key": value` pairs up to the closing brace; a repeated key keeps the last
json_members(text, p0, acc) ==
    LET p == SkipSpace(text, p0)
    IN  IF ~Is(text, p, "\"") THEN JsonError
        ELSE LET k == json_string(text, p + 1, "")
             IN  IF ~k.ok \/ ~Is(text, SkipSpace(text, k.pos), ":") THEN JsonError
                 ELSE LET v    == json_value(text, SkipSpace(text, k.pos) + 1)
                          q    == SkipSpace(text, v.pos)
                          acc1 == Put(acc, k.value, v.value)
                      IN  IF ~v.ok THEN JsonError
                          ELSE IF Is(text, q, ",") THEN json_members(text, q + 1, acc1)
                          ELSE IF Is(text, q, "}")
                          THEN [ok |-> TRUE, value |-> acc1, pos |-> q + 1]
                          ELSE JsonError

\* values up to the closing bracket
json_items(text, p0, acc) ==
    LET v == json_value(text, p0)
        q == SkipSpace(text, v.pos)
    IN  IF ~v.ok THEN JsonError
        ELSE IF Is(text, q, ",") THEN json_items(text, q + 1, Append(acc, v.value))
        ELSE IF Is(text, q, "]")
        THEN [ok |-> TRUE, value |-> Append(acc, v.value), pos |-> q + 1]
        ELSE JsonError

\* one value and nothing behind it, or ValueError
json_loads(text) ==
    LET v == json_value(text, 1)
    IN  IF v.ok /\ SkipSpace(text, v.pos) > Len(text) THEN v ELSE JsonError

\* ---- the header
HEADER_SIZE == 256
VERSION     == 1
MAGIC       == utf8_encode("MTRC")

\* time.time() values handed to create_header, in ticks
StartTimes    == {0, 7}
\* what another writer may have left in the version field and at the start
OtherVersions == {0, 2}
OtherMagic    == utf8_encode("MTRX")

\* struct.pack_into(fmt, buffer, offset, ...) of the packed bytes
pack_into(buf, offset, bytes) ==
    [i \in 1..Len(buf) |->
        IF i > offset /\ i <= offset + Len(bytes) THEN bytes[i - offset] ELSE buf[i]]

\* data[a:b] of Python: the slice is cut at the end of the data
Slice(d, a, b) == SubSeq(d, a + 1, Min(b, Len(d)))

\* mutant of create_header: the metadata length is packed right behind the
\* version
create_header_dense(fmt, start_timestamp) ==
    LET metadata_json == utf8_encode(json_dumps(fmt))
        header0 == [i \in 1..HEADER_SIZE |-> 0]
        header1 == pack_into(header0, 0,
                       MAGIC \o Pack(VERSION, 4) \o Pack(Len(metadata_json), 4))
    IN  header1 \o metadata_json

\* '4sIQ' in native alignment puts the magic at 0, the version at 4 and the
\* start time at 8; integers are little-endian
create_header(fmt, start_timestamp) ==
    LET start_us      == TruncDiv(start_timestamp, TicksPerUs)
        metadata_json == utf8_encode(json_dumps(fmt))
        metadata_len  == Len(metadata_json)
        header0 == [i \in 1..HEADER_SIZE |-> 0]
        header1 == pack_into(header0, 0,
                       MAGIC \o Pack(VERSION, 4) \o Pack(start_us, 8))
        header2 == pack_into(header1, 16, Pack(metadata_len, 4))
    IN  header2 \o metadata_json

ParseError(what) ==
    [ok |-> FALSE, error |-> what, metadata |-> <<>>, offset |-> 0]

\* parse_header(data): 'IQ' from offset 4 needs the 16 bytes up to offset 20,
\* and what it unpacks is not looked at
parse_header(d) ==
    IF Slice(d, 0, 4) # MAGIC THEN ParseError("magic")
    ELSE IF Len(d) < 20 THEN ParseError("struct")
    ELSE LET metadata_len   == LittleEndian(Slice(d, 16, 20))
             metadata_start == HEADER_SIZE
             metadata_end   == metadata_start + metadata_len
             metadata       == json_loads(utf8_decode(Slice(d, metadata_start,
                                                            metadata_end)))
         IN  IF ~metadata.ok THEN ParseError("json")
             ELSE [ok |-> TRUE, error |-> "none", metadata |-> metadata.value,
                   offset |-> metadata_end]

\* cmd_analyze on a whole file: the magic, the three header fields, the
\* metadata, then the parse loop on what follows with
\* `current_time = start_time`
analyze_file(d) ==
    IF Slice(d, 0, 4) # MAGIC \/ Len(d) < 20
    THEN Failed(NoAnalysis, Min(Len(d), 20))
    ELSE LET start_time   == LittleEndian(Slice(d, 8, 16))
             metadata_len == LittleEndian(Slice(d, 16, 20))
             metadata_end == HEADER_SIZE + metadata_len
             metadata     == json_loads(utf8_decode(Slice(d, HEADER_SIZE,
                                                          metadata_end)))
         IN  IF ~metadata.ok THEN Failed(NoAnalysis, Min(Len(d), metadata_end))
             ELSE parse_loop([NoAnalysis EXCEPT !.status = "parsing",
                                                !.current_time = start_time],
                             Slice(d, metadata_end, Len(d)))

\* create_header(start_timestamp) on the tables as they are
CreateHeader ==
    /\ header.stage = "none"
    /\ \E start_timestamp \in StartTimes :
        header' = [NoHeader EXCEPT
                     !.stage = "written",
                     !.start_us = TruncDiv(start_timestamp, TicksPerUs),
                     !.data = create_header(format, start_timestamp)]
    /\ UNCHANGED <<varint, format, interns>>
    /\ UNCHANGED <<wvars, tvars, avars>>

\* a file of another format version: the same bytes but for the version field
OtherVersion ==
    /\ header.stage = "written"
    /\ header.edit = "none"
    /\ header.ran = {}
    /\ \E v \in OtherVersions :
        header' = [header EXCEPT !.edit = "version",
                                 !.data = pack_into(@, 4, Pack(v, 4))]
    /\ UNCHANGED <<varint, format, interns>>
    /\ UNCHANGED <<wvars, tvars, avars>>

\* a file that is no trace: other bytes where the magic belongs
WrongMagic ==
    /\ header.stage = "written"
    /\ header.edit = "none"
    /\ header.ran = {}
    /\ header' = [header EXCEPT !.edit = "magic",
                                !.data = pack_into(@, 0, OtherMagic)]
    /\ UNCHANGED <<varint, format, interns>>
    /\ UNCHANGED <<wvars, tvars, avars>>

\* TraceFormat.parse_header(data)
ParseHeader ==
    /\ header.stage = "written"
    /\ "parse_header" \notin header.ran
    /\ header' = [header EXCEPT !.ran = @ \cup {"parse_header"},
                                !.parsed = parse_header(header.data)]
    /\ UNCHANGED <<varint, format, interns>>
    /\ UNCHANGED <<wvars, tvars, avars>>

\* cmd_analyze on the file
AnalyzeHeader ==
    /\ header.stage = "written"
    /\ "cmd_analyze" \notin header.ran
    /\ LET a == analyze_file(header.data)
       IN  header' = [header EXCEPT !.ran = @ \cup {"cmd_analyze"},
                                    !.exit_code = a.exit_code,
                                    !.report = a.report]
    /\ UNCHANGED <<varint, format, interns>>
    /\ UNCHANGED <<wvars, tvars, avars>>

NextFormat ==
    \/ InternStack
    \/ InternMarker
    \/ CreateHeader
    \/ OtherVersion
    \/ WrongMagic
    \/ ParseHeader
    \/ AnalyzeHeader

\* ------------------------------------------------- interning and header claims
StackCalls == {i \in 1..Len(interns) : interns[i].op = "stack"}

\* C23: a repeated get_or_create_stack_id(s) returns the id s got first and
\* adds no entry, and two different frame sequences never get the same id.
InternIdempotent ==
    \A i, j \in StackCalls :
        i < j =>
            /\ (interns[i].arg = interns[j].arg) <=> (interns[i].id = interns[j].id)
            /\ interns[i].arg = interns[j].arg => ~interns[j].changed

\* a frame sequence interned again after another one was interned in between
InternIdempotentWitness ==
    \E i, k, j \in StackCalls :
        /\ i < k /\ k < j
        /\ interns[i].arg = interns[j].arg
        /\ interns[k].arg # interns[i].arg
        /\ interns[j].id = interns[i].id
        /\ interns[k].id # interns[i].id
        /\ ~interns[j].changed

\* the keys of a table are 0..next_id-1 and no two of them have one value
Dense(table, next_id) ==
    /\ DOMAIN table = 0..(next_id - 1)
    /\ \A a, b \in DOMAIN table : table[a] = table[b] => a = b

\* every entry of a table is still there, as it was
Kept(table, later) ==
    \A k \in DOMAIN table : k \in DOMAIN later /\ later[k] = table[k]

\* C24: each of the three tables has exactly the keys 0..next_id-1 with no
\* value twice, and no step removes an entry or changes the value of an id.
InternTablesGrow ==
    /\ [](/\ Dense(format.files, format.next_file_id)
          /\ Dense(format.functions, format.next_func_id)
          /\ Dense(format.stack_traces, format.next_stack_id))
    /\ [][/\ Kept(format.files, format'.files)
          /\ Kept(format.functions, format'.functions)
          /\ Kept(format.stack_traces, format'.stack_traces)]_vars

\* a marker that took the id of a function name, and one that got a new id
InternTablesWitness ==
    /\ \E i, j \in 1..Len(interns) :
        /\ interns[i].op = "marker" /\ ~interns[i].changed
        /\ interns[j].op = "marker" /\ interns[j].changed
        /\ interns[i].id # interns[j].id
    /\ StackCalls # {}
    /\ format.next_func_id >= 2

\* C25: create_header gives 256 bytes with MTRC at 0-3, version 1 at 4-7,
\* start_us at 8-15, the length of the metadata blob at 16-19 and zeros at
\* 20-255, then exactly that many bytes; parse_header returns the metadata
\* and the offset 256 + length.
HeaderStability ==
    (header.stage = "written" /\ header.edit = "none") =>
        LET d            == header.data
            metadata_len == LittleEndian(Slice(d, 16, 20))
        IN  /\ Slice(d, 0, 4) = utf8_encode("MTRC")
            /\ LittleEndian(Slice(d, 4, 8)) = 1
            /\ LittleEndian(Slice(d, 8, 16)) = header.start_us
            /\ \A i \in 20..255 : d[i + 1] = 0
            /\ Len(d) = 256 + metadata_len
            /\ "parse_header" \in header.ran =>
                  /\ header.parsed.ok
                  /\ header.parsed.metadata = MetadataDict(format)
                  /\ header.parsed.offset = 256 + metadata_len

\* a header over tables that hold two stacks and a marker name, parsed
HeaderStabilityWitness ==
    /\ header.stage = "written"
    /\ header.edit = "none"
    /\ "parse_header" \in header.ran
    /\ header.parsed.ok
    /\ header.start_us > 0
    /\ format.next_stack_id >= 2
    /\ \E i \in 1..Len(interns) : interns[i].op = "marker" /\ interns[i].changed

\* C26 (as claimed): a header whose version is not 1 makes parse_header and
\* the analyzer fail, the analyzer with a non-zero exit code, as a header
\* with a wrong magic does.
HeaderStrictness ==
    header.edit \in {"version", "magic"} =>
        /\ "parse_header" \in header.ran =>
              /\ ~header.parsed.ok
              /\ header.parsed.error = header.edit
        /\ "cmd_analyze" \in header.ran => header.exit_code = 1

NextTracer ==
    \/ \E th \in Callers : Return(th)
    \/ \E t \in Tracers : TracerStart(t)
    \/ \E t \in Tracers : ModuleStart(t)
    \/ \E t \in Tracers : TracerStop(t)
    \/ ModuleStop
    \/ StopEmit
    \/ StopFinish
    \/ \E t \in Tracers : SnapshotCall(t)
    \/ SnapshotEmit
    \/ SnapshotFinish
    \/ \E t \in Tracers, name \in Names : MarkCall(t, name)
    \/ MarkEmit
    \/ MarkFinish
    \/ \E name \in Names : ModuleMark(name)
    \/ ModuleSnapshot
    \/ \E t \in Tracers, phase \in Phases : GcCall(t, phase)
    \/ GcEmit
    \/ GcFinish
    \/ \E t \in Tracers : TracerWorker(t)

CodecIdle ==
    /\ varint = NoVarint
    /\ format = NewFormat
    /\ interns = <<>>
    /\ header = NoHeader

ToolsIdle == sampler = NoSampler /\ AnalyzerInit /\ CodecIdle

InitTracer == WriterInit({1}) /\ TracerInit(SampleDens) /\ ToolsIdle

SpecTracer == InitTracer /\ [][NextTracer]_vars

\* the same API on tracers whose output file may be impossible to open
InitOpen == WriterInit({1}) /\ TracerInitAt({1}, Paths) /\ ToolsIdle

SpecOpen == InitOpen /\ [][NextTracer]_vars

InitSampler ==
    WriterInit({1}) /\ TracerInit({1}) /\ SamplerInit /\ AnalyzerInit /\ CodecIdle

SpecSampler == InitSampler /\ [][NextSampler]_vars

InitAnalyze ==
    WriterInit({1}) /\ TracerInit({1}) /\ ToolsIdle

SpecAnalyze == InitAnalyze /\ [][NextAnalyze]_vars

InitVarint == WriterInit({1}) /\ TracerInit({1}) /\ ToolsIdle

SpecVarint == InitVarint /\ [][NextVarint]_vars

InitFormat == WriterInit({1}) /\ TracerInit({1}) /\ ToolsIdle

SpecFormat == InitFormat /\ [][NextFormat]_vars

\* ==================================================== specifications
Next ==
    \/ Open
    \/ WriteEvent
    \/ WorkerTop
    \/ WorkerDrain
    \/ WorkerExtend
    \/ WorkerCheck
    \/ \E th \in Threads : IncLoad(th)
    \/ \E th \in Threads : IncStore(th)
    \/ \E th \in Threads : FlushTest(th)
    \/ \E th \in Threads : FlushWrite(th)
    \/ \E th \in Threads : FlushLoad(th)
    \/ \E th \in Threads : FlushStore(th)
    \/ \E th \in Threads : FlushClear(th)
    \/ CloseSetStop
    \/ CloseJoin
    \/ CloseJoinTimeout
    \/ CloseLock
    \/ CloseLoop
    \/ CloseFile

Init == WriterInit(0..MaxQueue) /\ TracerInit({1}) /\ ToolsIdle

Spec == Init /\ [][Next]_vars

\* the steps of the worker thread, and those of close() once it is called
WorkerStep ==
    \/ WorkerTop
    \/ WorkerDrain
    \/ WorkerExtend
    \/ WorkerCheck
    \/ IncLoad("worker")
    \/ IncStore("worker")
    \/ FlushTest("worker")
    \/ FlushWrite("worker")
    \/ FlushLoad("worker")
    \/ FlushStore("worker")
    \/ FlushClear("worker")

CloserStep ==
    \/ CloseJoin
    \/ CloseJoinTimeout
    \/ CloseLock
    \/ CloseLoop
    \/ CloseFile
    \/ IncLoad("closer")
    \/ IncStore("closer")
    \/ FlushTest("closer")
    \/ FlushWrite("closer")
    \/ FlushLoad("closer")
    \/ FlushStore("closer")
    \/ FlushClear("closer")

\* the same writer under a fair scheduler: a thread that can take a step is
\* not held up for ever. Producers and the caller of close() are free to
\* never call.
InitLive == WriterInit({MaxQueue}) /\ TracerInit({1}) /\ ToolsIdle

SpecLive == InitLive /\ [][Next]_vars /\ WF_vars(WorkerStep) /\ WF_vars(CloserStep)
====
